---------------------------- MODULE Spec2Model ----------------------------
(* FIRE calculator: the deterministic projection engine (calculateFire),  *)
(* the Monte Carlo engine (runMonteCarlo), the worker hook                *)
(* (useMonteCarloWorker), the functions of financial.ts called on their   *)
(* own, and the store (useFireStore), as state machines.                  *)
(*                                                                        *)
(* Numbers. The source computes in IEEE doubles. Here money is an integer *)
(* number of currency units and every rate or multiplier is a fixed-point *)
(* number with three decimals (ONE = 1.000); a product or quotient is     *)
(* rounded down to that grid.                                             *)
EXTENDS Integers, Sequences, FiniteSets

VARIABLES
    \* ---- calculateFire ----
    inputs,                 \* the FireInputs of the call
    now,                    \* the wall clock read by new Date()
    pc,                     \* "loop" | "done" | "idle"
    i,                      \* loop index of the year loop
    portfolio, portfolioOpt, portfolioPess,
    cumulativeContributions, cumulativeGrowth,
    salary, additionalIncome, livingExpenses, retirementExpenses,
    fireAge, isRetired,
    bridgeGapAtFire, bridgeIncomeTotalAtFire, pensionCreditAtFire, debtCostAtFire,
    remainingDebts,
    yearlyProjections,
    fireChecks,             \* per accumulation year: what the FIRE checks saw
    result,                 \* the FireResult returned
    callNo, firstResult,    \* second call with the same inputs
    \* ---- runMonteCarlo ----
    mcInputs,               \* the FireInputs of the call
    numSimulations,
    targetFireAge,          \* NULL when not supplied
    mcPc,                   \* "start" | "path" | "done" | "idle"
    rngState,               \* s of mulberry32
    sim,                    \* index of the path being simulated
    mcLocals,               \* the per-path locals and the year index i
    allPaths, fireAges,
    mcResult,               \* the MonteCarloResult returned
    mcCallNo, mcFirstResult, \* second call with the same arguments
    \* ---- useMonteCarloWorker ----
    mounted,                \* the component using the hook is mounted
    props,                  \* [inputs, numSimulations, targetFireAge] of the last render
    requestIdRef,
    debounceRef,            \* NoTimer, or the props the pending timer closed over
    workerInbox,            \* requests posted to the worker, not yet handled
    mainInbox,              \* responses posted by the worker, not yet handled
    mc, isComputing,        \* the state the hook returns
    \* ---- financial.ts called on its own ----
    calls,                  \* the calls made so far: function, arguments, value returned
    solver,                 \* the locals of the finite-horizon requiredPortfolio
    \* ---- useFireStore ----
    store,                  \* the inputs and result fields of the store's state
    pending                 \* the inputs local of the action that is calling recalculate

calcVars == <<inputs, now, pc, i, portfolio, portfolioOpt, portfolioPess,
              cumulativeContributions, cumulativeGrowth, salary, additionalIncome,
              livingExpenses, retirementExpenses, fireAge, isRetired,
              bridgeGapAtFire, bridgeIncomeTotalAtFire, pensionCreditAtFire,
              debtCostAtFire, remainingDebts, yearlyProjections, fireChecks,
              result, callNo, firstResult>>

mcVars == <<mcInputs, numSimulations, targetFireAge, mcPc, rngState, sim, mcLocals,
            allPaths, fireAges, mcResult, mcCallNo, mcFirstResult>>

hookVars == <<mounted, props, requestIdRef, debounceRef, workerInbox, mainInbox, mc,
              isComputing>>

finVars == <<calls, solver>>

storeVars == <<store, pending>>

vars == <<calcVars, mcVars, hookVars, finVars, storeVars>>

-----------------------------------------------------------------------------
(* Bounds of the model *)

MaxHorizon == 4          \* lifeExpectancy - currentAge is at most this
MinAge == 63             \* youngest currentAge drawn
BaseYear == 2026         \* calendar year of the clock at the start
MaxTicks == 2            \* clock advances observed during the calls
MaxMcHorizon == 2        \* lifeExpectancy - currentAge of the Monte Carlo calls
MaxSims == 3             \* numSimulations is at most this
MaxRequests == 3         \* requests the hook posts to its worker

-----------------------------------------------------------------------------
(* Fixed-point arithmetic standing for the source's doubles *)

Pct == 100
ONE == 10 * Pct

\* null, for a fireAge not yet assigned
NULL == -1

\* the element of a one-element set: in Only({ F(v) : v \in {e} }) the value
\* e is computed once and F reads it as v
Only(S) == CHOOSE r \in S : TRUE

Max(a, b) == IF a >= b THEN a ELSE b
Min(a, b) == IF a <= b THEN a ELSE b

\* x * r for a rate or multiplier r
Mul(x, r) == (x * r) \div ONE
\* x / r for a rate or multiplier r
Div(x, r) == (x * ONE) \div r

RECURSIVE Pow(_, _)
\* Math.pow(b, n) for a multiplier b and an integer n >= 0
Pow(b, n) == IF n <= 0 THEN ONE ELSE Mul(Pow(b, n - 1), b)

\* Math.pow(b, -n)
PowNeg(b, n) == Div(ONE, Pow(b, n))

RECURSIVE SumSeq(_)
SumSeq(s) == IF s = <<>> THEN 0 ELSE Head(s) + SumSeq(Tail(s))

RECURSIVE MapAmount(_)
\* the amounts of a sequence of one-time events
MapAmount(s) == IF s = <<>> THEN <<>> ELSE <<Head(s).amount>> \o MapAmount(Tail(s))

\* .filter(e => e.yearsFromNow === k).reduce((sum, e) => sum + e.amount, 0)
OneTimeAt(events, k) ==
    SumSeq(MapAmount(SelectSeq(events, LAMBDA e : e.yearsFromNow = k)))

-----------------------------------------------------------------------------
(* financial math of calculator.ts *)

\* annuityPV(n, r): present value of n unit payments, as a multiplier
annuityPV(n, r) ==
    IF n <= 0 THEN 0
    ELSE IF r < 1 THEN n * ONE
    ELSE Div(ONE - PowNeg(ONE + r, n), r)

\* requiredPortfolio(retExpensesToday, pensionAnnualToday, gapYears, swr, realReturn)
requiredPortfolio(retExpensesToday, pensionAnnualToday, gapYears, swr, realReturn) ==
    IF pensionAnnualToday <= 0 THEN Div(retExpensesToday, swr)
    ELSE LET shortfall == Max(0, retExpensesToday - pensionAnnualToday)
             postPensionPortfolio == Div(shortfall, swr)
         IN  IF gapYears <= 0 THEN postPensionPortfolio
             ELSE LET gapCost == Mul(retExpensesToday, annuityPV(gapYears, realReturn))
                      residualPV == Div(postPensionPortfolio, Pow(ONE + realReturn, gapYears))
                  IN  gapCost + residualPV

RECURSIVE DebtPayAt(_, _)
\* for (const d of debts) if (d.yearsLeft > y) debtPay += d.monthlyPayment * 12
DebtPayAt(debts, y) ==
    IF debts = <<>> THEN 0
    ELSE (IF Head(debts).yearsLeft > y THEN Head(debts).monthlyPayment * 12 ELSE 0)
         + DebtPayAt(Tail(debts), y)

RECURSIVE DrawdownFrom(_, _, _, _, _, _, _, _, _, _, _, _, _)
\* the loop of survivesDrawdown from iteration y on, with running p and exp
DrawdownFrom(y, p, exp, inflation, netReturn, pensionMonthly, pensionStartAge, fAge, fireYearIdx, lifeExpectancy, debts, futureIncomes, futureExpenses) ==
    IF y > lifeExpectancy - fAge THEN TRUE
    ELSE LET age == fAge + y
             absYear == fireYearIdx + y
             pensionIncome == IF age >= pensionStartAge
                              THEN Mul(pensionMonthly * 12, Pow(ONE + inflation, absYear))
                              ELSE 0
             debtPay == DebtPayAt(debts, y)
             oneTime == OneTimeAt(futureIncomes, absYear) - OneTimeAt(futureExpenses, absYear)
             totalSpend == exp + debtPay
             withdrawal == Max(0, totalSpend - pensionIncome)
             p2 == p + Mul(p, netReturn) - withdrawal + oneTime
         IN  IF p2 < 0 THEN FALSE
             ELSE DrawdownFrom(y + 1, p2, Mul(exp, ONE + inflation), inflation, netReturn,
                               pensionMonthly, pensionStartAge, fAge, fireYearIdx,
                               lifeExpectancy, debts, futureIncomes, futureExpenses)

\* survivesDrawdown(...): does the portfolio stay >= 0 from fireAge to lifeExpectancy
survivesDrawdown(startPortfolio, retExpenses, inflation, netReturn, pensionMonthly, pensionStartAge, fAge, fireYearIdx, lifeExpectancy, debts, futureIncomes, futureExpenses) ==
    DrawdownFrom(0, startPortfolio, retExpenses, inflation, netReturn, pensionMonthly,
                 pensionStartAge, fAge, fireYearIdx, lifeExpectancy, debts,
                 futureIncomes, futureExpenses)

-----------------------------------------------------------------------------
(* calculateFire: core rates and the values fixed before the year loop *)

\* x / 100 for a percentage input
FromPct(x) == x * (ONE \div Pct)

swr == FromPct(inputs.fireGoals.safeWithdrawalRate)
postRetirementFactor == FromPct(inputs.expenses.postRetirementExpensePercent)
grossReturn == FromPct(inputs.investmentStrategy.expectedAnnualReturn)
capitalGainsTax == FromPct(inputs.investmentStrategy.capitalGainsTaxRate)
netReturn == Mul(grossReturn, ONE - capitalGainsTax)
inflation == FromPct(inputs.expenses.annualInflationRate)
realReturn == Max(1, Div(ONE + netReturn, ONE + inflation) - ONE)

baseAnnualExpenses == inputs.expenses.monthlyExpenses * 12
fireNumberBaseToday == Div(Mul(baseAnnualExpenses, postRetirementFactor), swr)
totalMonthlyIncome == inputs.income.monthlyNetSalary + inputs.income.additionalMonthlyIncome
\* the contribution read with the wrong sign
monthlyInvestment_Negated == 0 - inputs.fireGoals.monthlyInvestment
monthlyInvestment == inputs.fireGoals.monthlyInvestment
currentSavingsRate ==
    IF totalMonthlyIncome > 0
    THEN (monthlyInvestment * Pct * ONE) \div totalMonthlyIncome
    ELSE 0
maxYears_Short == inputs.personalInfo.lifeExpectancy - inputs.personalInfo.currentAge
maxYears == inputs.personalInfo.lifeExpectancy - inputs.personalInfo.currentAge + 1

RECURSIVE InitialDebts(_)
\* assets.debts.map(d => ({...d, yearsLeft: d.remainingYears}))
InitialDebts(debts) ==
    IF debts = <<>> THEN <<>>
    ELSE <<[monthlyPayment |-> Head(debts).monthlyPayment,
            yearsLeft |-> Head(debts).remainingYears]>> \o InitialDebts(Tail(debts))

\* the debts carried over without a year taken off
TickDebts_NoTick(debts) == SelectSeq(debts, LAMBDA d : d.yearsLeft > 0)

RECURSIVE TickDebts(_)
\* .filter(d => d.yearsLeft > 0).map(d => ({...d, yearsLeft: d.yearsLeft - 1}))
TickDebts(debts) ==
    IF debts = <<>> THEN <<>>
    ELSE (IF Head(debts).yearsLeft > 0
          THEN <<[Head(debts) EXCEPT !.yearsLeft = @ - 1]>>
          ELSE <<>>) \o TickDebts(Tail(debts))

\* annualDebtPayments accumulated inside the same map
AnnualDebtPayments(debts) == DebtPayAt(debts, 0)

RECURSIVE DebtPV(_, _)
\* PV of the remaining fixed nominal payments of the debts still running
DebtPV(debts, rate) ==
    IF debts = <<>> THEN 0
    ELSE LET d == Head(debts)
             ap == d.monthlyPayment * 12
         IN  (IF d.yearsLeft > 0
              THEN IF rate > 1
                   THEN Div(Mul(ap, ONE - PowNeg(ONE + rate, d.yearsLeft)), rate)
                   ELSE ap * d.yearsLeft
              ELSE 0) + DebtPV(Tail(debts), rate)

\* new Date().getFullYear()
FullYear(clock) == clock.year

\* pension income of the simulated year i at the given age
PensionIncome(age, k) ==
    IF age >= inputs.income.pensionStartAge
    THEN Mul(inputs.income.pensionMonthlyAmount * 12, Pow(ONE + inflation, k))
    ELSE 0

\* Math.max(0, portfolio): the value a projection shows
DisplayValue_Unclamped(v) == v
DisplayValue(v) == Max(0, v)

\* the standard FIRE check of one accumulation year
standardCheck_Strict(p, adjustedRequired, fAge) == p > adjustedRequired /\ fAge = NULL
standardCheck(p, adjustedRequired, fAge) == p >= adjustedRequired /\ fAge = NULL

\* fireGoals.futureIncomes.filter(e => !!e.includeInFire && e.yearsFromNow > i)
bridgeIncomes(k) ==
    SelectSeq(inputs.fireGoals.futureIncomes, LAMBDA e : e.includeInFire /\ e.yearsFromNow > k)

\* the bridge check of one accumulation year: reached when the standard check
\* did not retire, passed when a bridge income lies ahead and the drawdown
\* simulation survives
bridgeCheck_NoIncomeNeeded(standard, fAge, bridge, survives) ==
    ~standard /\ fAge = NULL /\ survives
bridgeCheck(standard, fAge, bridge, survives) ==
    ~standard /\ fAge = NULL /\ Len(bridge) > 0 /\ survives

\* events strictly ahead of year k
Ahead(events, k) == SelectSeq(events, LAMBDA e : e.yearsFromNow > k)

-----------------------------------------------------------------------------
(* calculateFire: the year loop *)

\* one iteration of the loop in the accumulation phase (!isRetired)
AccumulateYear ==
    /\ pc = "loop"
    /\ i < maxYears
    /\ ~isRetired
    /\ LET age == inputs.personalInfo.currentAge + i
           year == FullYear(now) + i
           annualDebtPayments == AnnualDebtPayments(remainingDebts)
           debts2 == TickDebts(remainingDebts)
           totalAnnualIncome == (salary + additionalIncome) * 12
           pensionIncome == PensionIncome(age, i)
           oneTimeExpenses == OneTimeAt(inputs.fireGoals.futureExpenses, i)
           oneTimeIncomes == OneTimeAt(inputs.fireGoals.futureIncomes, i)
           netOneTime == oneTimeIncomes - oneTimeExpenses
           annualContribution == monthlyInvestment * 12
           growth == Mul(portfolio, netReturn)
           growthOpt == Mul(portfolioOpt, netReturn + 20)
           growthPess == Mul(portfolioPess, Max(0, netReturn - 20))
           p2 == portfolio + growth + annualContribution + netOneTime
           pOpt2 == portfolioOpt + growthOpt + annualContribution + netOneTime
           pPess2 == portfolioPess + growthPess + annualContribution + netOneTime
           passiveIncome == Mul(p2, swr)
           projection ==
               [year |-> year,
                age |-> age,
                portfolioValue |-> DisplayValue(p2),
                portfolioOptimistic |-> DisplayValue(pOpt2),
                portfolioPessimistic |-> DisplayValue(pPess2),
                annualContributions |-> annualContribution,
                annualInvestmentGrowth |-> growth,
                annualExpenses |-> livingExpenses + Max(0, -netOneTime),
                annualDebtPayments |-> annualDebtPayments,
                passiveIncome |-> passiveIncome,
                totalIncome |-> totalAnnualIncome + pensionIncome,
                cumulativeContributions |-> cumulativeContributions + annualContribution,
                cumulativeGrowth |-> cumulativeGrowth + growth,
                savingsRate |-> IF totalAnnualIncome > 0
                                THEN (annualContribution * Pct * ONE) \div totalAnnualIncome
                                ELSE 0,
                isRetired |-> FALSE]
           \* -- check if FIRE achieved --
           inflationMultiplier == Pow(ONE + inflation, i)
           retExpensesToday == Mul(baseAnnualExpenses, postRetirementFactor)
           pensionAnnualBase == inputs.income.pensionMonthlyAmount * 12
           gapYears == Max(0, inputs.income.pensionStartAge - age)
           reqToday == requiredPortfolio(retExpensesToday, pensionAnnualBase, gapYears,
                                         swr, realReturn)
           debtPV == DebtPV(debts2, netReturn)
           adjustedRequired == Max(0, Mul(reqToday, inflationMultiplier) + debtPV)
           standard == standardCheck(p2, adjustedRequired, fireAge)
           bridge == bridgeIncomes(i)
           candidateRetExpenses == Mul(livingExpenses, postRetirementFactor)
           survives ==
               survivesDrawdown(p2, candidateRetExpenses, inflation, netReturn,
                                inputs.income.pensionMonthlyAmount,
                                inputs.income.pensionStartAge, age, i,
                                inputs.personalInfo.lifeExpectancy,
                                SelectSeq(debts2, LAMBDA d : d.yearsLeft > 0),
                                Ahead(inputs.fireGoals.futureIncomes, i),
                                Ahead(inputs.fireGoals.futureExpenses, i))
           byBridge == bridgeCheck(standard, fireAge, bridge, survives)
           retires == standard \/ byBridge
       IN  /\ remainingDebts' = debts2
           /\ portfolio' = p2
           /\ portfolioOpt' = pOpt2
           /\ portfolioPess' = pPess2
           /\ cumulativeContributions' = cumulativeContributions + annualContribution
           /\ cumulativeGrowth' = cumulativeGrowth + growth
           /\ yearlyProjections' = Append(yearlyProjections, projection)
           /\ fireChecks' = Append(fireChecks,
                  [age |-> age, portfolio |-> p2, adjustedRequired |-> adjustedRequired,
                   bridgeAhead |-> Len(bridge) > 0,
                   survives |-> Len(bridge) > 0 /\ survives])
           /\ fireAge' = IF retires THEN age ELSE fireAge
           /\ isRetired' = IF retires THEN TRUE ELSE isRetired
           /\ bridgeGapAtFire' = IF byBridge THEN adjustedRequired - p2 ELSE bridgeGapAtFire
           /\ bridgeIncomeTotalAtFire' =
                  IF byBridge THEN SumSeq(MapAmount(bridge)) ELSE bridgeIncomeTotalAtFire
           /\ pensionCreditAtFire' =
                  IF retires THEN Max(0, fireNumberBaseToday - reqToday)
                  ELSE pensionCreditAtFire
           /\ debtCostAtFire' = IF retires THEN Div(debtPV, inflationMultiplier)
                                ELSE debtCostAtFire
           /\ retirementExpenses' =
                  IF retires THEN Mul(livingExpenses, postRetirementFactor)
                  ELSE retirementExpenses
           \* grow income & expenses for next year (accumulation only)
           /\ IF ~retires
              THEN /\ salary' = Mul(salary, ONE + FromPct(inputs.income.annualSalaryGrowth))
                   /\ additionalIncome' = Mul(additionalIncome, ONE + inflation)
                   /\ livingExpenses' = Mul(livingExpenses, ONE + inflation)
              ELSE UNCHANGED <<salary, additionalIncome, livingExpenses>>
           /\ i' = i + 1
    /\ UNCHANGED <<inputs, now, pc, result, callNo, firstResult>>
    /\ UNCHANGED <<mcVars, hookVars, finVars, storeVars>>

\* retirementExpenses *= 1 + inflation
GrowRetirementExpenses_Flat(e) == e
GrowRetirementExpenses(e) == Mul(e, ONE + inflation)

\* one iteration of the loop in the drawdown phase; retiredAfter is the
\* value isRetired has after it
DrawdownStep(retiredAfter) ==
    /\ pc = "loop"
    /\ i < maxYears
    /\ isRetired
    /\ LET age == inputs.personalInfo.currentAge + i
           year == FullYear(now) + i
           annualDebtPayments == AnnualDebtPayments(remainingDebts)
           debts2 == TickDebts(remainingDebts)
           pensionIncome == PensionIncome(age, i)
           oneTimeExpenses == OneTimeAt(inputs.fireGoals.futureExpenses, i)
           oneTimeIncomes == OneTimeAt(inputs.fireGoals.futureIncomes, i)
           netOneTime == oneTimeIncomes - oneTimeExpenses
           totalRetirementSpend == retirementExpenses + annualDebtPayments
           withdrawal == Max(0, totalRetirementSpend - pensionIncome)
           growth == Mul(portfolio, netReturn)
           growthOpt == Mul(portfolioOpt, netReturn + 20)
           growthPess == Mul(portfolioPess, Max(0, netReturn - 20))
           p2 == portfolio + growth - withdrawal + netOneTime
           pOpt2 == portfolioOpt + growthOpt - withdrawal + netOneTime
           pPess2 == portfolioPess + growthPess - withdrawal + netOneTime
           projection ==
               [year |-> year,
                age |-> age,
                portfolioValue |-> DisplayValue(p2),
                portfolioOptimistic |-> DisplayValue(pOpt2),
                portfolioPessimistic |-> DisplayValue(pPess2),
                annualContributions |-> 0,
                annualInvestmentGrowth |-> growth,
                annualExpenses |-> retirementExpenses + Max(0, -netOneTime),
                annualDebtPayments |-> annualDebtPayments,
                passiveIncome |-> Mul(p2, swr),
                totalIncome |-> pensionIncome,
                cumulativeContributions |-> cumulativeContributions,
                cumulativeGrowth |-> cumulativeGrowth + growth,
                savingsRate |-> 0,
                isRetired |-> TRUE]
       IN  /\ remainingDebts' = debts2
           /\ portfolio' = p2
           /\ portfolioOpt' = pOpt2
           /\ portfolioPess' = pPess2
           /\ cumulativeGrowth' = cumulativeGrowth + growth
           /\ yearlyProjections' = Append(yearlyProjections, projection)
           /\ retirementExpenses' = GrowRetirementExpenses(retirementExpenses)
           /\ isRetired' = retiredAfter
           /\ i' = i + 1
    /\ UNCHANGED <<inputs, now, pc, result, callNo, firstResult, cumulativeContributions,
                   salary, additionalIncome, livingExpenses, fireAge, fireChecks,
                   bridgeGapAtFire, bridgeIncomeTotalAtFire, pensionCreditAtFire,
                   debtCostAtFire>>
    /\ UNCHANGED <<mcVars, hookVars, finVars, storeVars>>

\* the drawdown branch never touches isRetired
DrawdownYear_Working == DrawdownStep(FALSE)
DrawdownYear_Unretire == DrawdownStep(portfolio > 0)
DrawdownYear == DrawdownStep(isRetired)

-----------------------------------------------------------------------------
(* calculateFire: after the loop *)

coastTargetAge == 65

\* Math.pow(b, n) for any integer n
PowInt(b, n) == IF n >= 0 THEN Pow(b, n) ELSE PowNeg(b, -n)

\* yearlyProjections[k]?.portfolioValue ?? 0 (k counted from 0)
PortfolioValueAt(projs, k) ==
    IF k >= 0 /\ k < Len(projs) THEN projs[k + 1].portfolioValue ELSE 0

\* yearlyProjections.find(p => p.age === a)?.portfolioValue ?? 0
PortfolioValueAtAge(projs, a) ==
    LET hits == SelectSeq(projs, LAMBDA p : p.age = a)
    IN  IF hits = <<>> THEN 0 ELSE hits[1].portfolioValue

RECURSIVE CoastScan(_, _, _)
\* the coast loop from age a on: the first age whose grown portfolio reaches the
\* target, or currentAge when none does
CoastScan(a, projs, coastTarget) ==
    IF a > coastTargetAge THEN inputs.personalInfo.currentAge
    ELSE LET yearsToGrow == coastTargetAge - a
             currentPortfolio == PortfolioValueAt(projs, a - inputs.personalInfo.currentAge)
             futureValue == Mul(currentPortfolio, Pow(ONE + netReturn, yearsToGrow))
         IN  IF futureValue >= coastTarget THEN a
             ELSE CoastScan(a + 1, projs, coastTarget)

\* every retired projection counted as a success
SuccessRate_CountAll(projs) ==
    IF Len(SelectSeq(projs, LAMBDA p : p.isRetired)) >= 0 THEN Pct * ONE ELSE 0

\* success rate over the retired projections, in percent
SuccessRate(projs) ==
    LET retirementProjections == SelectSeq(projs, LAMBDA p : p.isRetired)
        yearsWithPositivePortfolio ==
            Len(SelectSeq(retirementProjections, LAMBDA p : p.portfolioValue > 0))
    IN  IF Len(retirementProjections) > 0
        THEN (yearsWithPositivePortfolio * Pct * ONE) \div Len(retirementProjections)
        ELSE Pct * ONE

\* if (fireAge === null) fireAge = personalInfo.lifeExpectancy
FinalFireAge_NoDefault(fAge) == fAge
FinalFireAge(fAge) == IF fAge = NULL THEN inputs.personalInfo.lifeExpectancy ELSE fAge

\* the statements after the loop, up to the return
Finish ==
    /\ pc = "loop"
    /\ i >= maxYears
    /\ LET fAge == FinalFireAge(fireAge)
           yearsToFire == fAge - inputs.personalInfo.currentAge
           retExpTdy == Mul(baseAnnualExpenses, postRetirementFactor)
           pensAnnTdy == inputs.income.pensionMonthlyAmount * 12
           fireGap == Max(0, inputs.income.pensionStartAge - fAge)
           adjustedFireNumberToday ==
               requiredPortfolio(retExpTdy, pensAnnTdy, fireGap, swr, realReturn)
               + debtCostAtFire
           fireNumber == Mul(adjustedFireNumberToday, PowInt(ONE + inflation, yearsToFire))
           fireDate == [now EXCEPT !.year = @ + yearsToFire]
           coastGapYears == Max(0, inputs.income.pensionStartAge - coastTargetAge)
           coastReqToday ==
               requiredPortfolio(Mul(baseAnnualExpenses, postRetirementFactor),
                                 inputs.income.pensionMonthlyAmount * 12,
                                 coastGapYears, swr, realReturn)
           coastTarget ==
               Mul(coastReqToday,
                   PowInt(ONE + inflation, coastTargetAge - inputs.personalInfo.currentAge))
           coastFireAge ==
               CoastScan(inputs.personalInfo.currentAge, yearlyProjections, coastTarget)
           postRetirementMonthly == Mul(inputs.expenses.monthlyExpenses, postRetirementFactor)
           currentPassiveIncome == Mul(portfolio, swr) \div 12
           baristaFireIncome == Max(0, postRetirementMonthly - currentPassiveIncome)
       IN  /\ fireAge' = fAge
           /\ result' =
                [fireNumber |-> fireNumber,
                 fireNumberToday |-> adjustedFireNumberToday,
                 fireNumberBaseToday |-> fireNumberBaseToday,
                 fireAge |-> fAge,
                 fireDate |-> fireDate,
                 yearsToFire |-> yearsToFire,
                 currentSavingsRate |-> currentSavingsRate,
                 monthlySavings |-> monthlyInvestment,
                 coastFireAge |-> coastFireAge,
                 baristaFireIncome |-> baristaFireIncome,
                 yearlyProjections |-> yearlyProjections,
                 totalContributions |-> cumulativeContributions,
                 totalGrowth |-> cumulativeGrowth,
                 portfolioAtRetirement |-> PortfolioValueAtAge(yearlyProjections, fAge),
                 portfolioAt90 |->
                     PortfolioValueAtAge(yearlyProjections,
                                         inputs.personalInfo.lifeExpectancy),
                 retirementYears |-> inputs.personalInfo.lifeExpectancy - fAge,
                 successRate |-> SuccessRate(yearlyProjections),
                 bridgeGap |-> bridgeGapAtFire,
                 bridgeIncomeTotal |-> bridgeIncomeTotalAtFire,
                 pensionCreditToday |-> pensionCreditAtFire,
                 debtCostToday |-> debtCostAtFire]
    /\ pc' = "done"
    /\ UNCHANGED <<inputs, now, i, portfolio, portfolioOpt, portfolioPess,
                   cumulativeContributions, cumulativeGrowth, salary, additionalIncome,
                   livingExpenses, retirementExpenses, isRetired, bridgeGapAtFire,
                   bridgeIncomeTotalAtFire, pensionCreditAtFire, debtCostAtFire,
                   remainingDebts, yearlyProjections, fireChecks, callNo, firstResult>>
    /\ UNCHANGED <<mcVars, hookVars, finVars, storeVars>>

-----------------------------------------------------------------------------
(* calculateFire: the inputs drawn and the state at entry *)

NoResult == [fireAge |-> NULL]

\* the FireInputs the calls are checked on
Debts == { <<>>, <<[monthlyPayment |-> 20, remainingYears |-> 2]>> }
FutureExpenses == { <<>>, <<[amount |-> 2000, yearsFromNow |-> 1]>> }
FutureIncomes ==
    { <<>>,
      <<[amount |-> 3000, yearsFromNow |-> 2, includeInFire |-> TRUE]>>,
      <<[amount |-> 500, yearsFromNow |-> 1, includeInFire |-> FALSE]>> }

FireInputs ==
    { [personalInfo |-> [currentAge |-> a, lifeExpectancy |-> a + h],
       income |-> [monthlyNetSalary |-> 200, annualSalaryGrowth |-> 2,
                   additionalMonthlyIncome |-> 0,
                   pensionMonthlyAmount |-> pen, pensionStartAge |-> 65],
       expenses |-> [monthlyExpenses |-> 10, annualInflationRate |-> infl,
                     postRetirementExpensePercent |-> 100],
       assets |-> [investedAssets |-> inv, cashSavings |-> 0, debts |-> ds],
       investmentStrategy |-> [expectedAnnualReturn |-> ret, capitalGainsTaxRate |-> 26],
       fireGoals |-> [safeWithdrawalRate |-> 4, monthlyInvestment |-> mi,
                      futureExpenses |-> fe, futureIncomes |-> fi]] :
      a \in MinAge .. MinAge + 1, h \in 0 .. MaxHorizon, pen \in {0, 5},
      infl \in {0, 2}, inv \in {0, 2000, 3000}, ds \in Debts, ret \in {0, 5},
      mi \in {0, 50}, fe \in FutureExpenses, fi \in FutureIncomes }

\* the locals of calculateFire as the year loop is entered, debts0 being the
\* debts the loop starts from
EnterLoopWith(inp, debts0) ==
    /\ pc' = "loop"
    /\ i' = 0
    /\ portfolio' = inp.assets.investedAssets + inp.assets.cashSavings
    /\ portfolioOpt' = inp.assets.investedAssets + inp.assets.cashSavings
    /\ portfolioPess' = inp.assets.investedAssets + inp.assets.cashSavings
    /\ cumulativeContributions' = inp.assets.investedAssets + inp.assets.cashSavings
    /\ cumulativeGrowth' = 0
    /\ salary' = inp.income.monthlyNetSalary
    /\ additionalIncome' = inp.income.additionalMonthlyIncome
    /\ livingExpenses' = inp.expenses.monthlyExpenses * 12
    /\ retirementExpenses' = 0
    /\ fireAge' = NULL
    /\ isRetired' = FALSE
    /\ bridgeGapAtFire' = 0
    /\ bridgeIncomeTotalAtFire' = 0
    /\ pensionCreditAtFire' = 0
    /\ debtCostAtFire' = 0
    /\ remainingDebts' = debts0
    /\ yearlyProjections' = <<>>
    /\ fireChecks' = <<>>

\* every call clones the debts of its inputs
EnterLoop_SharedDebts(inp) == EnterLoopWith(inp, remainingDebts)
EnterLoop(inp) == EnterLoopWith(inp, InitialDebts(inp.assets.debts))

\* the inputs of the runs that watch the clock
MaxClockHorizon == 2
ClockInputs ==
    { inp \in FireInputs :
        /\ inp.personalInfo.currentAge = MinAge
        /\ inp.personalInfo.lifeExpectancy - MinAge <= MaxClockHorizon
        /\ inp.income.pensionMonthlyAmount = 0
        /\ inp.expenses.annualInflationRate = 2
        /\ inp.investmentStrategy.expectedAnnualReturn = 5
        /\ inp.fireGoals.futureExpenses = <<>>
        /\ inp.fireGoals.futureIncomes = <<>> }

\* calculateFire entered (p = "loop") on inputs of S, or not running (p = "idle")
InitWith(S, p) ==
    /\ inputs \in S
    /\ now = [year |-> BaseYear, tick |-> 0]
    /\ pc = p
    /\ i = 0
    /\ portfolio = inputs.assets.investedAssets + inputs.assets.cashSavings
    /\ portfolioOpt = portfolio
    /\ portfolioPess = portfolio
    /\ cumulativeContributions = portfolio
    /\ cumulativeGrowth = 0
    /\ salary = inputs.income.monthlyNetSalary
    /\ additionalIncome = inputs.income.additionalMonthlyIncome
    /\ livingExpenses = inputs.expenses.monthlyExpenses * 12
    /\ retirementExpenses = 0
    /\ fireAge = NULL
    /\ isRetired = FALSE
    /\ bridgeGapAtFire = 0
    /\ bridgeIncomeTotalAtFire = 0
    /\ pensionCreditAtFire = 0
    /\ debtCostAtFire = 0
    /\ remainingDebts = InitialDebts(inputs.assets.debts)
    /\ yearlyProjections = <<>>
    /\ fireChecks = <<>>
    /\ result = NoResult
    /\ callNo = 1
    /\ firstResult = NoResult

\* a second call of calculateFire with the same inputs
CallAgain ==
    /\ pc = "done"
    /\ callNo = 1
    /\ callNo' = 2
    /\ firstResult' = result
    /\ result' = NoResult
    /\ EnterLoop(inputs)
    /\ UNCHANGED <<inputs, now>>
    /\ UNCHANGED <<mcVars, hookVars, finVars, storeVars>>

\* the wall clock advances: a later instant of the same year, or the next year
Tick ==
    /\ now.tick < MaxTicks
    /\ \/ now' = [now EXCEPT !.tick = @ + 1]
       \/ now' = [year |-> now.year + 1, tick |-> now.tick + 1]
    /\ UNCHANGED <<inputs, pc, i, portfolio, portfolioOpt, portfolioPess,
                   cumulativeContributions, cumulativeGrowth, salary, additionalIncome,
                   livingExpenses, retirementExpenses, fireAge, isRetired,
                   bridgeGapAtFire, bridgeIncomeTotalAtFire, pensionCreditAtFire,
                   debtCostAtFire, remainingDebts, yearlyProjections, fireChecks,
                   result, callNo, firstResult>>
    /\ UNCHANGED <<mcVars, hookVars, finVars, storeVars>>

-----------------------------------------------------------------------------
(* Properties of calculateFire *)

\* what one logged accumulation year says about the two FIRE checks
StandardPassed(c) == c.portfolio >= c.adjustedRequired
BridgePassed(c) == c.bridgeAhead /\ c.survives
CheckPassed(c) == StandardPassed(c) \/ BridgePassed(c)

\* C2: the transition to Retired fires in the first year in which a check
\* passes: while fireAge is unset no logged year passed a check, and once
\* FIRE is reached the fire age is the age of the last logged year, whose
\* post-growth portfolio passed the standard or the bridge check, every
\* earlier logged year having failed both.
C2_FirstPassage ==
    /\ (pc = "loop" /\ fireAge = NULL) =>
           \A k \in 1 .. Len(fireChecks) : ~CheckPassed(fireChecks[k])
    /\ isRetired =>
           /\ Len(fireChecks) = fireAge - inputs.personalInfo.currentAge + 1
           /\ fireChecks[Len(fireChecks)].age = fireAge
           /\ CheckPassed(fireChecks[Len(fireChecks)])
           /\ \A k \in 1 .. Len(fireChecks) - 1 :
                  /\ ~CheckPassed(fireChecks[k])
                  /\ fireChecks[k].age < fireAge

\* FIRE reached after at least two failed years, by the standard check
C2_Witness ==
    /\ pc = "done"
    /\ isRetired
    /\ Len(fireChecks) >= 3
    /\ StandardPassed(fireChecks[Len(fireChecks)])

\* C3: the result holds exactly lifeExpectancy - currentAge + 1 projections
\* with consecutive ascending ages from currentAge to lifeExpectancy.
C3_ProjectionSpan ==
    pc = "done" =>
        /\ Len(result.yearlyProjections) =
               inputs.personalInfo.lifeExpectancy - inputs.personalInfo.currentAge + 1
        /\ \A k \in 1 .. Len(result.yearlyProjections) :
               result.yearlyProjections[k].age = inputs.personalInfo.currentAge + k - 1
        /\ result.yearlyProjections[Len(result.yearlyProjections)].age =
               inputs.personalInfo.lifeExpectancy

\* a finished call over a horizon of several years
C3_Witness ==
    /\ pc = "done"
    /\ Len(result.yearlyProjections) >= 4
    /\ result.yearlyProjections[1].age = inputs.personalInfo.currentAge

\* C4: every projection shows portfolio values >= 0 on all three tracks.
C4_DisplayedNonNegative ==
    \A k \in 1 .. Len(yearlyProjections) :
        /\ yearlyProjections[k].portfolioValue >= 0
        /\ yearlyProjections[k].portfolioOptimistic >= 0
        /\ yearlyProjections[k].portfolioPessimistic >= 0

\* a drawdown year was recorded with 0 shown on the base and the pessimistic
\* track while the running portfolio is below 0
C4_Witness ==
    /\ portfolio < 0
    /\ yearlyProjections # <<>>
    /\ yearlyProjections[Len(yearlyProjections)].isRetired
    /\ yearlyProjections[Len(yearlyProjections)].portfolioValue = 0
    /\ yearlyProjections[Len(yearlyProjections)].portfolioPessimistic = 0

\* C5: when no check passes in any year the result's fireAge is
\* lifeExpectancy; always currentAge <= fireAge <= lifeExpectancy and
\* yearsToFire = fireAge - currentAge >= 0.
C5_NeverReachedIsLifeExpectancy ==
    pc = "done" =>
        /\ (\A k \in 1 .. Len(fireChecks) : ~CheckPassed(fireChecks[k])) =>
               result.fireAge = inputs.personalInfo.lifeExpectancy
        /\ inputs.personalInfo.currentAge <= result.fireAge
        /\ result.fireAge <= inputs.personalInfo.lifeExpectancy
        /\ result.yearsToFire = result.fireAge - inputs.personalInfo.currentAge
        /\ result.yearsToFire >= 0

\* a finished call in which every one of several years failed both checks
C5_Witness ==
    /\ pc = "done"
    /\ ~isRetired
    /\ Len(fireChecks) >= 3
    /\ \A k \in 1 .. Len(fireChecks) : ~CheckPassed(fireChecks[k])
    /\ result.fireAge = inputs.personalInfo.lifeExpectancy

\* a FireResult without the fields read off the clock
ClockFree(r) ==
    [r EXCEPT !.fireDate = 0,
              !.yearlyProjections =
                  [k \in 1 .. Len(r.yearlyProjections) |->
                      [r.yearlyProjections[k] EXCEPT !.year = 0]]]

\* C6 as stated: two calls with identical inputs return identical results in
\* every field, whenever they are made.
C6_IdenticalWheneverCalled ==
    (callNo = 2 /\ pc = "done") => result = firstResult

\* C6 amended: two calls with identical inputs agree in every field that is
\* not read off the clock, and in every field when the clock did not advance
\* between and during them.
C6_IdenticalUpToClock ==
    (callNo = 2 /\ pc = "done") =>
        /\ ClockFree(result) = ClockFree(firstResult)
        /\ now.tick = 0 => result = firstResult

\* the second call finished in a later calendar year than the first started
C6_Witness ==
    /\ callNo = 2
    /\ pc = "done"
    /\ now.year > BaseYear
    /\ Len(result.yearlyProjections) >= 2
    /\ result.fireDate # firstResult.fireDate

-----------------------------------------------------------------------------
(* financial.ts: the multi-pension versions used by runMonteCarlo *)

RECURSIVE PensionsFrom(_, _)
\* sum of annualAmount over the pensions with startAge <= age
PensionsFrom(pensions, age) ==
    IF pensions = <<>> THEN 0
    ELSE (IF age >= Head(pensions).startAge THEN Head(pensions).annualAmount ELSE 0)
         + PensionsFrom(Tail(pensions), age)

RECURSIVE recurringIncomeAtAge(_, _, _, _)
\* recurring incomes running at age, deflated to the currency of fireAge
recurringIncomeAtAge(incomes, age, fAge, infl) ==
    IF incomes = <<>> THEN 0
    ELSE LET inc == Head(incomes)
             yearsFromNow == age - fAge
             yearsSinceStart == age - inc.startAge
             nominal == Mul(inc.annualAmount, Pow(ONE + inc.annualGrowthRate, yearsSinceStart))
         IN  (IF age < inc.startAge THEN 0
              ELSE Div(nominal, Pow(ONE + infl, yearsFromNow)))
             + recurringIncomeAtAge(Tail(incomes), age, fAge, infl)

RECURSIVE SurvivesFromAge(_, _, _, _, _, _, _, _, _)
\* survivesFrom(startPortfolio) of the finite-horizon mode, from age on
SurvivesFromAge(age, pf, retExpensesToday, activePensions, fAge, rReturn, lifeExp, infl, recurringIncomes) ==
    IF age > lifeExp THEN TRUE
    ELSE LET pensionIncome == PensionsFrom(activePensions, age)
             extraRecurring == recurringIncomeAtAge(recurringIncomes, age, fAge, infl)
             withdrawal == Max(0, retExpensesToday - pensionIncome - extraRecurring)
             pf2 == Mul(pf, ONE + rReturn) - withdrawal
         IN  IF pf2 < 0 THEN FALSE
             ELSE SurvivesFromAge(age + 1, pf2, retExpensesToday, activePensions, fAge,
                                  rReturn, lifeExp, infl, recurringIncomes)

BisectionCeiling == 1000000000
BisectionIterations == 60

RECURSIVE DoubleHigh(_, _, _, _, _, _, _, _)
\* while (!survivesFrom(high) && high < 1_000_000_000) high *= 2
DoubleHigh(high, retExpensesToday, activePensions, fAge, rReturn, lifeExp, infl, recurringIncomes) ==
    IF ~SurvivesFromAge(fAge, high, retExpensesToday, activePensions, fAge, rReturn,
                        lifeExp, infl, recurringIncomes)
       /\ high < BisectionCeiling
    THEN DoubleHigh(high * 2, retExpensesToday, activePensions, fAge, rReturn, lifeExp,
                    infl, recurringIncomes)
    ELSE high

RECURSIVE Bisect(_, _, _, _, _, _, _, _, _, _)
\* the bisection loop with k iterations left. On the integer grid an interval
\* at most one unit wide has mid = low: the first further iteration moves high
\* to low when low survives, and no iteration changes it otherwise.
Bisect(k, low, high, retExpensesToday, activePensions, fAge, rReturn, lifeExp, infl, recurringIncomes) ==
    IF k = 0 THEN high
    ELSE IF high - low <= 1
    THEN IF SurvivesFromAge(fAge, low, retExpensesToday, activePensions, fAge,
                            rReturn, lifeExp, infl, recurringIncomes)
         THEN low ELSE high
    ELSE LET mid == (low + high) \div 2
         IN  IF SurvivesFromAge(fAge, mid, retExpensesToday, activePensions, fAge,
                                rReturn, lifeExp, infl, recurringIncomes)
             THEN Bisect(k - 1, low, mid, retExpensesToday, activePensions, fAge,
                         rReturn, lifeExp, infl, recurringIncomes)
             ELSE Bisect(k - 1, mid, high, retExpensesToday, activePensions, fAge,
                         rReturn, lifeExp, infl, recurringIncomes)

\* requiredPortfolio(...) with lifeExpectancy supplied: the smallest start
\* portfolio that survives from fireAge to lifeExpectancy
requiredPortfolioFinite(retExpensesToday, pensions, fAge, swr_, rReturn, lifeExp, infl, recurringIncomes) ==
    IF retExpensesToday <= 0 THEN 0
    ELSE LET activePensions == SelectSeq(pensions, LAMBDA q : q.annualAmount > 0)
             high0 == Max(Div(retExpensesToday, Max(10, swr_)), retExpensesToday) * 2
             high == DoubleHigh(high0, retExpensesToday, activePensions, fAge, rReturn,
                                lifeExp, infl, recurringIncomes)
         IN  Bisect(BisectionIterations, 0, high, retExpensesToday, activePensions, fAge,
                    rReturn, lifeExp, infl, recurringIncomes)

RECURSIVE PensionIncomeNominal(_, _, _, _)
\* pensions active at age, indexed with inflation from the simulation start
PensionIncomeNominal(pensions, age, infl, absYear) ==
    IF pensions = <<>> THEN 0
    ELSE (IF age >= Head(pensions).startAge
          THEN Mul(Head(pensions).annualAmount, Pow(ONE + infl, absYear))
          ELSE 0) + PensionIncomeNominal(Tail(pensions), age, infl, absYear)

RECURSIVE RecurringIncomeNominal(_, _, _)
\* recurring incomes active at age, grown at their own rate from the start
RecurringIncomeNominal(incomes, age, absYear) ==
    IF incomes = <<>> THEN 0
    ELSE (IF age >= Head(incomes).startAge
          THEN Mul(Head(incomes).annualAmount, Pow(ONE + Head(incomes).annualGrowthRate, absYear))
          ELSE 0) + RecurringIncomeNominal(Tail(incomes), age, absYear)

RECURSIVE DrawdownMultiFrom(_, _, _, _, _, _, _, _, _, _, _, _, _)
\* the loop of survivesDrawdown (financial.ts) from iteration y on
DrawdownMultiFrom(y, p, exp, infl, nReturn, pensions, fAge, fireYearIdx, lifeExp, debts, futureIncomes, futureExpenses, recurringIncomes) ==
    IF y > lifeExp - fAge THEN TRUE
    ELSE LET age == fAge + y
             absYear == fireYearIdx + y
             pensionIncome == PensionIncomeNominal(pensions, age, infl, absYear)
             recurringIncome == RecurringIncomeNominal(recurringIncomes, age, absYear)
             debtPay == DebtPayAt(debts, y)
             oneTime == OneTimeAt(futureIncomes, absYear) - OneTimeAt(futureExpenses, absYear)
             totalSpend == exp + debtPay
             withdrawal == Max(0, totalSpend - pensionIncome - recurringIncome)
             p2 == p + Mul(p, nReturn) - withdrawal + oneTime
         IN  IF p2 < 0 THEN FALSE
             ELSE DrawdownMultiFrom(y + 1, p2, Mul(exp, ONE + infl), infl, nReturn,
                                    pensions, fAge, fireYearIdx, lifeExp, debts,
                                    futureIncomes, futureExpenses, recurringIncomes)

\* the loop entered one year late
survivesDrawdownMulti_FromYearOne(startPortfolio, retExpenses, infl, nReturn, pensions, fAge, fireYearIdx, lifeExp, debts, futureIncomes, futureExpenses, recurringIncomes) ==
    DrawdownMultiFrom(1, startPortfolio, retExpenses, infl, nReturn, pensions, fAge,
                      fireYearIdx, lifeExp, debts, futureIncomes, futureExpenses,
                      recurringIncomes)

\* survivesDrawdown(...) of financial.ts
survivesDrawdownMulti(startPortfolio, retExpenses, infl, nReturn, pensions, fAge, fireYearIdx, lifeExp, debts, futureIncomes, futureExpenses, recurringIncomes) ==
    DrawdownMultiFrom(0, startPortfolio, retExpenses, infl, nReturn, pensions, fAge,
                      fireYearIdx, lifeExp, debts, futureIncomes, futureExpenses,
                      recurringIncomes)

-----------------------------------------------------------------------------
(* monteCarlo.ts: the seeded random stream. A 32-bit word is a pair        *)
(* <<high 16 bits, low 16 bits>>.                                          *)

Half == 65536

RECURSIVE Xor16(_, _, _)
\* x ^ y on the low n bits
Xor16(x, y, n) ==
    IF n = 0 THEN 0
    ELSE (IF x % 2 = y % 2 THEN 0 ELSE 1) + 2 * Xor16(x \div 2, y \div 2, n - 1)

RECURSIVE Or16(_, _, _)
\* x | y on the low n bits
Or16(x, y, n) ==
    IF n = 0 THEN 0
    ELSE (IF x % 2 = 1 \/ y % 2 = 1 THEN 1 ELSE 0) + 2 * Or16(x \div 2, y \div 2, n - 1)

Xor32(a, b) == <<Xor16(a[1], b[1], 16), Xor16(a[2], b[2], 16)>>
\* a | c for a constant c below 2^16
OrLow(c, a) == <<a[1], Or16(a[2], c, 16)>>
\* (a + b) | 0
Add32(a, b) == <<(a[1] + b[1] + (a[2] + b[2]) \div Half) % Half, (a[2] + b[2]) % Half>>

RECURSIVE Pow2(_)
Pow2(n) == IF n = 0 THEN 1 ELSE 2 * Pow2(n - 1)

\* a >>> k for 0 < k < 16
Shr32(a, k) ==
    <<a[1] \div Pow2(k), (a[1] % Pow2(k)) * Pow2(16 - k) + a[2] \div Pow2(k)>>

\* x * y for 16-bit x and y, as a 32-bit word
Mul16(x, y) ==
    LET t == (x \div 256) * y
        u == (x % 256) * y
        loSum == u + (t % 256) * 256
    IN  <<(loSum \div Half + t \div 256) % Half, loSum % Half>>

\* Math.imul(a, b): the low 32 bits of the product
Imul(a, b) ==
    LET ll == Mul16(a[2], b[2])
    IN  <<(ll[1] + Mul16(a[1], b[2])[2] + Mul16(a[2], b[1])[2]) % Half, ll[2]>>

\* mulberry32: the state after one call, s = (s + 0x6d2b79f5) | 0
MulberryStep(s) == Add32(s, <<27947, 31221>>)

\* mulberry32: the 32-bit output (t ^ (t >>> 14)) >>> 0 drawn from state s
MulberryOut(s) ==
    Only({ Only({ Only({ Xor32(t2, Shr32(t2, 14)) :
                         t2 \in {Xor32(Add32(t1, m), t1)} }) :
                  m \in {Imul(Xor32(t1, Shr32(t1, 7)), OrLow(61, t1))} }) :
           t1 \in {Imul(Xor32(s, Shr32(s, 15)), OrLow(1, s))} })

RECURSIVE hashSeed(_, _)
\* hashSeed(str): h = (Math.imul(31, h) + str.charCodeAt(i)) | 0 over the codes
hashSeed(codes, h) ==
    IF codes = <<>> THEN h
    ELSE LET h2 == Add32(Imul(<<0, 31>>, h), <<0, Head(codes)>>)
         IN  \* the word is complete before the next character is read
             IF h2[1] < Half THEN hashSeed(Tail(codes), h2) ELSE h2

RECURSIVE DrawNonZero(_, _)
\* while (u === 0) u = rng(): the state after the draw and the word drawn;
\* fuel bounds the redraws
DrawNonZero(s, fuel) ==
    Only({ Only({ IF u = <<0, 0>> /\ fuel > 0 THEN DrawNonZero(s2, fuel - 1)
                  ELSE [s |-> s2, u |-> u] :
                  u \in {MulberryOut(s2)} }) :
           s2 \in {MulberryStep(s)} })

\* Math.sqrt(-2.0 * Math.log(u)) at the midpoint of the eighth of (0,1) u lies in
Radius(u) ==
    <<2355, 1830, 1525, 1286, 1073, 866, 644, 359>>[u[1] \div 8192 + 1]

\* Math.cos(2.0 * Math.PI * v) at the midpoint of the eighth of (0,1) v lies in
Cosine(v) ==
    <<924, 383, -383, -924, -924, -383, 383, 924>>[v[1] \div 8192 + 1]

\* randn(): the state after the two draws and the standard-normal variate
randn(s) ==
    Only({ Only({ [s |-> dv.s, z |-> Mul(Radius(du.u), Cosine(dv.u))] :
                  dv \in {DrawNonZero(du.s, 4)} }) :
           du \in {DrawNonZero(s, 4)} })

\* Math.log(1 + x), by its series to the third order
Log1p(x) == x - Mul(x, x) \div 2 + Mul(Mul(x, x), x) \div 3

\* Math.exp(y), by its series to the third order
Exp(y) == ONE + y + Mul(y, y) \div 2 + Mul(Mul(y, y), y) \div 6

-----------------------------------------------------------------------------
(* runMonteCarlo: the values fixed before the simulation loop *)

arithmeticNet ==
    FromPct(mcInputs.investmentStrategy.expectedAnnualReturn)
    - FromPct(mcInputs.investmentStrategy.annualFees)
volatility == FromPct(mcInputs.investmentStrategy.annualVolatility)
\* geometricReturn(arithmeticNet * 100, annualVolatility) / 100
geometricReturn(r, v) == Max(0, r - Mul(v, v) \div 2)
geoNet == geometricReturn(arithmeticNet, volatility)
mcCapitalGainsTax == FromPct(mcInputs.investmentStrategy.capitalGainsTaxRate)
mcInflation == FromPct(mcInputs.expenses.annualInflationRate)
mcSwr == FromPct(mcInputs.fireGoals.safeWithdrawalRate)
mcRealReturn == Max(1, Div(ONE + geoNet, ONE + mcInflation) - ONE)
mcPostRetirementFactor == FromPct(mcInputs.expenses.postRetirementExpensePercent)
mcBaseAnnualExpenses == mcInputs.expenses.monthlyExpenses * 12
initialMonthlyInvestment == mcInputs.fireGoals.monthlyInvestment
mcMaxYears == mcInputs.personalInfo.lifeExpectancy - mcInputs.personalInfo.currentAge + 1
startPortfolio ==
    mcInputs.assets.investedAssets + mcInputs.assets.cashSavings + mcInputs.assets.otherAssets

RECURSIVE PensionEntries(_)
\* income.pensions.filter(p => p.monthlyAmount > 0).map(...)
PensionEntries(pensions) ==
    IF pensions = <<>> THEN <<>>
    ELSE (IF Head(pensions).monthlyAmount > 0
          THEN <<[annualAmount |-> Head(pensions).monthlyAmount * 12,
                  startAge |-> Head(pensions).startAge]>>
          ELSE <<>>) \o PensionEntries(Tail(pensions))
pensionEntries == PensionEntries(mcInputs.income.pensions)

RECURSIVE RecurringEntries(_)
\* fireGoals.recurringIncomes filtered and mapped to entries
RecurringEntries(incomes) ==
    IF incomes = <<>> THEN <<>>
    ELSE (IF Head(incomes).monthlyAmount > 0
          THEN <<[annualAmount |-> Head(incomes).monthlyAmount * 12,
                  startAge |-> Head(incomes).startAge,
                  annualGrowthRate |-> FromPct(Head(incomes).annualGrowthRate),
                  includeInFire |-> Head(incomes).includeInFire]>>
          ELSE <<>>) \o RecurringEntries(Tail(incomes))

RECURSIVE RealEstateEntries(_)
\* assets.realEstateAssets with rent, as recurring incomes from currentAge on
RealEstateEntries(estates) ==
    IF estates = <<>> THEN <<>>
    ELSE (IF Head(estates).monthlyNetIncome > 0
          THEN <<[annualAmount |-> Head(estates).monthlyNetIncome * 12,
                  startAge |-> mcInputs.personalInfo.currentAge,
                  annualGrowthRate |-> FromPct(Head(estates).rentalGrowthRate),
                  includeInFire |-> TRUE]>>
          ELSE <<>>) \o RealEstateEntries(Tail(estates))
recurringIncomeEntries ==
    RecurringEntries(mcInputs.fireGoals.recurringIncomes)
    \o RealEstateEntries(mcInputs.assets.realEstateAssets)

RECURSIVE Digits(_)
\* the char codes of the decimal text of n >= 0
Digits(n) == IF n < 10 THEN <<48 + n>> ELSE Digits(n \div 10) \o <<48 + (n % 10)>>

RECURSIVE JoinNumbers(_)
\* the numbers of a sequence as text, separated by commas
JoinNumbers(ns) ==
    IF ns = <<>> THEN <<>>
    ELSE IF Len(ns) = 1 THEN Digits(Head(ns))
    ELSE Digits(Head(ns)) \o <<44>> \o JoinNumbers(Tail(ns))

RECURSIVE Flatten(_, _)
\* the numbers of a list of records, field by field in the order of names
Flatten(recs, names) ==
    IF recs = <<>> THEN <<>>
    ELSE [k \in 1 .. Len(names) |-> Head(recs)[names[k]]] \o Flatten(Tail(recs), names)

RECURSIVE Flags(_)
\* the includeInFire flags of a list of records, true as 1 and false as 0
Flags(recs) ==
    IF recs = <<>> THEN <<>>
    ELSE <<IF Head(recs).includeInFire THEN 1 ELSE 0>> \o Flags(Tail(recs))

\* JSON.stringify(inputs): the values of the inputs in declaration order. The
\* key names and punctuation, the same text for every input, are left to the
\* braces and commas.
Stringify(inp) ==
    <<123>> \o
    JoinNumbers(
        <<inp.personalInfo.currentAge, inp.personalInfo.lifeExpectancy,
          inp.income.annualSalaryGrowth>>
        \o Flatten(inp.income.pensions, <<"monthlyAmount", "startAge">>)
        \o <<inp.expenses.monthlyExpenses, inp.expenses.annualInflationRate,
             inp.expenses.postRetirementExpensePercent,
             inp.assets.investedAssets, inp.assets.cashSavings, inp.assets.otherAssets>>
        \o Flatten(inp.assets.debts, <<"monthlyPayment", "remainingYears">>)
        \o Flatten(inp.assets.realEstateAssets, <<"monthlyNetIncome", "rentalGrowthRate">>)
        \o <<inp.investmentStrategy.expectedAnnualReturn, inp.investmentStrategy.annualFees,
             inp.investmentStrategy.capitalGainsTaxRate,
             inp.investmentStrategy.annualVolatility,
             inp.fireGoals.safeWithdrawalRate, inp.fireGoals.monthlyInvestment>>
        \o Flatten(inp.fireGoals.futureExpenses, <<"amount", "yearsFromNow">>)
        \o Flatten(inp.fireGoals.futureIncomes, <<"amount", "yearsFromNow">>)
        \o Flags(inp.fireGoals.futureIncomes)
        \o Flatten(inp.fireGoals.recurringIncomes,
                   <<"monthlyAmount", "startAge", "annualGrowthRate">>)
        \o Flags(inp.fireGoals.recurringIncomes))
    \o <<125>>

\* seedStr = JSON.stringify(inputs) + (targetFireAge ?? '')
seedStr(inp, target) == Stringify(inp) \o (IF target = NULL THEN <<>> ELSE Digits(target))

\* the generator of a call is created from the seed of its arguments alone
SeedOf_Carried(inp, target) == rngState
SeedOf(inp, target) == hashSeed(seedStr(inp, target), <<0, 0>>)

\* the locals of one path as its year loop is entered
FreshPath ==
    [portfolio |-> startPortfolio,
     costBasis |-> startPortfolio,
     livingExpenses |-> mcBaseAnnualExpenses,
     currentMonthlyInvestment |-> initialMonthlyInvestment,
     retirementExpenses |-> 0,
     isRetired |-> FALSE,
     fireAge |-> NULL,
     remainingDebts |-> InitialDebts(mcInputs.assets.debts),
     path |-> <<>>,
     i |-> 0]

-----------------------------------------------------------------------------
(* runMonteCarlo: the simulation loop *)

\* the entry of runMonteCarlo up to the first path: the generator is created
MCStart ==
    /\ mcPc = "start"
    /\ rngState' = SeedOf(mcInputs, targetFireAge)
    /\ sim' = 0
    /\ mcLocals' = FreshPath
    /\ allPaths' = <<>>
    /\ fireAges' = <<>>
    /\ mcPc' = "path"
    /\ UNCHANGED <<mcInputs, numSimulations, targetFireAge, mcResult, mcCallNo,
                   mcFirstResult>>
    /\ UNCHANGED <<calcVars, hookVars, finVars, storeVars>>

\* the random return of one year drawn from state s: the state after the draw
\* and exp(mu + volatility * z) - 1
RandomReturn(s) ==
    LET mu == Log1p(arithmeticNet) - Mul(volatility, volatility) \div 2
    IN  Only({ [s |-> d.s, r |-> Exp(mu + Mul(volatility, d.z)) - ONE] :
               d \in {randn(s)} })

\* the forced retirement of a call with targetFireAge
targetCheck_Early(age, target, fAge) == age >= target - 1 /\ fAge = NULL
targetCheck(age, target, fAge) == age >= target /\ fAge = NULL

\* the interest rate of a debt clone, which carries no interestRate: 0.03
debtRate == 30

\* one year of a path in the accumulation phase
MCAccumulateYear ==
    /\ mcPc = "path"
    /\ sim < numSimulations
    /\ mcLocals.i < mcMaxYears
    /\ ~mcLocals.isRetired
    /\ \E draw \in {RandomReturn(rngState)}, debts2 \in {TickDebts(mcLocals.remainingDebts)} :
       LET L == mcLocals
           age == mcInputs.personalInfo.currentAge + L.i
           randomReturn == draw.r
           netOneTime == OneTimeAt(mcInputs.fireGoals.futureIncomes, L.i)
                         - OneTimeAt(mcInputs.fireGoals.futureExpenses, L.i)
           annualContribution == L.currentMonthlyInvestment * 12
           growth == Mul(L.portfolio, randomReturn)
           p2 == Max(0, L.portfolio + growth + annualContribution + netOneTime)
           costBasis2 ==
               IF netOneTime > 0 THEN L.costBasis + annualContribution + netOneTime
               ELSE IF p2 > 0
                    THEN L.costBasis + annualContribution
                         - Mul(-netOneTime, Div(L.costBasis + annualContribution, p2))
                    ELSE L.costBasis + annualContribution
           inflationMultiplier == Pow(ONE + mcInflation, L.i)
           retExpensesToday == Mul(mcBaseAnnualExpenses, mcPostRetirementFactor)
           reqToday ==
               requiredPortfolioFinite(
                   retExpensesToday, pensionEntries, age, mcSwr, mcRealReturn,
                   mcInputs.personalInfo.lifeExpectancy, mcInflation,
                   SelectSeq(recurringIncomeEntries,
                             LAMBDA inc : inc.startAge <= age \/ inc.includeInFire))
           debtPV == DebtPV(debts2, debtRate)
       IN
       \E adjustedRequired \in {Max(0, Mul(reqToday, inflationMultiplier) + debtPV)} :
       LET forced == targetFireAge # NULL /\ targetCheck(age, targetFireAge, L.fireAge)
           standard == targetFireAge = NULL /\ standardCheck(p2, adjustedRequired, L.fireAge)
           bridge ==
               SelectSeq(mcInputs.fireGoals.futureIncomes,
                         LAMBDA e : e.includeInFire /\ e.yearsFromNow > L.i)
           bridgeRecurring ==
               SelectSeq(recurringIncomeEntries,
                         LAMBDA inc : inc.includeInFire /\ inc.startAge > age)
           candidateRetExpenses == Mul(L.livingExpenses, mcPostRetirementFactor)
           byBridge ==
               /\ targetFireAge = NULL
               /\ ~standard
               /\ L.fireAge = NULL
               /\ Len(bridge) > 0 \/ Len(bridgeRecurring) > 0
               /\ survivesDrawdownMulti(
                      p2, candidateRetExpenses, mcInflation, geoNet, pensionEntries, age,
                      L.i, mcInputs.personalInfo.lifeExpectancy,
                      SelectSeq(debts2, LAMBDA d : d.yearsLeft > 0),
                      Ahead(mcInputs.fireGoals.futureIncomes, L.i),
                      Ahead(mcInputs.fireGoals.futureExpenses, L.i),
                      recurringIncomeEntries)
       IN
       \E retires \in {forced \/ standard \/ byBridge} :
           /\ rngState' = draw.s
           /\ mcLocals' =
                  [L EXCEPT
                     !.portfolio = p2,
                     !.costBasis = costBasis2,
                     !.remainingDebts = debts2,
                     !.fireAge = IF retires THEN age ELSE @,
                     !.isRetired = IF retires THEN TRUE ELSE @,
                     !.retirementExpenses = IF retires THEN candidateRetExpenses ELSE @,
                     !.livingExpenses =
                         IF retires THEN @ ELSE Mul(@, ONE + mcInflation),
                     !.currentMonthlyInvestment =
                         IF retires THEN @
                         ELSE Mul(@, ONE + FromPct(mcInputs.income.annualSalaryGrowth)),
                     !.path = Append(@, p2),
                     !.i = @ + 1]
    /\ UNCHANGED <<mcInputs, numSimulations, targetFireAge, mcPc, sim, allPaths, fireAges,
                   mcResult, mcCallNo, mcFirstResult>>
    /\ UNCHANGED <<calcVars, hookVars, finVars, storeVars>>

\* the value of a number that is NaN: below every number it is compared with,
\* as every comparison with NaN is false
NaN == -2000000000

\* one year of a path in the drawdown phase
MCDrawdownYear ==
    /\ mcPc = "path"
    /\ sim < numSimulations
    /\ mcLocals.i < mcMaxYears
    /\ mcLocals.isRetired
    /\ \E draw \in {RandomReturn(rngState)} :
       LET L == mcLocals
           age == mcInputs.personalInfo.currentAge + L.i
           randomReturn == draw.r
           annualDebtPayments == AnnualDebtPayments(L.remainingDebts)
           debts2 == TickDebts(L.remainingDebts)
           pensionIncome == PensionIncomeNominal(pensionEntries, age, mcInflation, L.i)
           recurringIncome == RecurringIncomeNominal(recurringIncomeEntries, age, L.i)
           netOneTime == OneTimeAt(mcInputs.fireGoals.futureIncomes, L.i)
                         - OneTimeAt(mcInputs.fireGoals.futureExpenses, L.i)
           totalSpend == L.retirementExpenses + annualDebtPayments
           netWithdrawal == Max(0, totalSpend - pensionIncome - recurringIncome)
           \* a portfolio that is NaN stays NaN: its growth and every sum are NaN
           lost == L.portfolio = NaN
           growth == Mul(L.portfolio, randomReturn)
           portfolioBeforeWithdrawal == L.portfolio + growth
           gainsPortion ==
               Div(portfolioBeforeWithdrawal - L.costBasis, portfolioBeforeWithdrawal)
           \* with nothing left before the withdrawal gainsPortion is Infinity:
           \* under a tax rate above 0 the quotient, netWithdrawal / -Infinity,
           \* is 0; under a tax rate of 0, Infinity * 0 is NaN and so is the quotient
           grossWithdrawal ==
               IF ~lost /\ netWithdrawal > 0 /\ portfolioBeforeWithdrawal > L.costBasis
               THEN IF portfolioBeforeWithdrawal = 0
                    THEN (IF mcCapitalGainsTax = 0 THEN NaN ELSE 0)
                    ELSE Div(netWithdrawal, ONE - Mul(gainsPortion, mcCapitalGainsTax))
               ELSE netWithdrawal
           \* Math.max(0, NaN) is NaN
           p2 == IF lost \/ grossWithdrawal = NaN THEN NaN
                 ELSE Max(0, L.portfolio + growth - grossWithdrawal + netOneTime)
           costBasisA ==
               IF ~lost /\ grossWithdrawal > 0 /\ portfolioBeforeWithdrawal > 0
               THEN L.costBasis
                    - Mul(grossWithdrawal, Div(L.costBasis, portfolioBeforeWithdrawal))
               ELSE L.costBasis
           costBasis2 ==
               IF netOneTime > 0 THEN costBasisA + netOneTime
               ELSE IF netOneTime < 0 /\ p2 > 0
                    THEN costBasisA - Mul(-netOneTime, Div(costBasisA, p2))
                    ELSE costBasisA
       IN  /\ rngState' = draw.s
           /\ mcLocals' =
                  [L EXCEPT
                     !.portfolio = p2,
                     !.costBasis = costBasis2,
                     !.remainingDebts = debts2,
                     !.retirementExpenses = Mul(@, ONE + mcInflation),
                     !.path = Append(@, p2),
                     !.i = @ + 1]
    /\ UNCHANGED <<mcInputs, numSimulations, targetFireAge, mcPc, sim, allPaths, fireAges,
                   mcResult, mcCallNo, mcFirstResult>>
    /\ UNCHANGED <<calcVars, hookVars, finVars, storeVars>>

\* the end of one path: it is stored with its fire age and the next one begins
MCNextPath ==
    /\ mcPc = "path"
    /\ sim < numSimulations
    /\ mcLocals.i >= mcMaxYears
    /\ allPaths' = Append(allPaths, mcLocals.path)
    /\ fireAges' = Append(fireAges,
                          IF mcLocals.fireAge = NULL
                          THEN mcInputs.personalInfo.lifeExpectancy
                          ELSE mcLocals.fireAge)
    /\ sim' = sim + 1
    /\ mcLocals' = FreshPath
    /\ UNCHANGED <<mcInputs, numSimulations, targetFireAge, mcPc, rngState, mcResult,
                   mcCallNo, mcFirstResult>>
    /\ UNCHANGED <<calcVars, hookVars, finVars, storeVars>>

-----------------------------------------------------------------------------
(* runMonteCarlo: the aggregation after the simulation loop *)

RECURSIVE Insert(_, _)
\* x put into the ascending sequence s
Insert(x, s) ==
    IF s = <<>> THEN <<x>>
    ELSE IF x <= Head(s) THEN <<x>> \o s
    ELSE <<Head(s)>> \o Insert(x, Tail(s))

RECURSIVE SortAsc(_)
\* [...].sort((a, b) => a - b)
SortAsc_Unsorted(s) == s
SortAsc(s) == IF s = <<>> THEN <<>> ELSE Insert(Head(s), SortAsc(Tail(s)))

\* allPaths.map(path => path[i] ?? 0).sort(...) at year index k (from 0)
ValuesAt(paths, k) ==
    SortAsc([j \in 1 .. Len(paths) |-> IF k < Len(paths[j]) THEN paths[j][k + 1] ELSE 0])

\* values[Math.floor(numSimulations * pct / 100)] ?? 0
PercentileOf(values, n, pct) ==
    LET idx == (n * pct) \div 100
    IN  IF idx < Len(values) THEN values[idx + 1] ELSE 0

\* the percentile arrays over the years of the horizon
Percentiles(paths, n, years) ==
    [p10 |-> [k \in 1 .. years |-> PercentileOf(ValuesAt(paths, k - 1), n, 10)],
     p25 |-> [k \in 1 .. years |-> PercentileOf(ValuesAt(paths, k - 1), n, 25)],
     p50 |-> [k \in 1 .. years |-> PercentileOf(ValuesAt(paths, k - 1), n, 50)],
     p75 |-> [k \in 1 .. years |-> PercentileOf(ValuesAt(paths, k - 1), n, 75)],
     p90 |-> [k \in 1 .. years |-> PercentileOf(ValuesAt(paths, k - 1), n, 90)]]

\* the share of paths whose last value is above 0, in percent
McSuccessRate(paths, n, years) ==
    LET alive == { j \in 1 .. Len(paths) :
                     (IF years - 1 < Len(paths[j]) /\ years >= 1
                      THEN paths[j][years] ELSE 0) > 0 }
    IN  (Cardinality(alive) * Pct * ONE) \div n

RECURSIVE Runs(_)
\* the runs of equal ages of an ascending sequence, as {age, count} entries
Runs(sorted) ==
    IF sorted = <<>> THEN <<>>
    ELSE LET a == Head(sorted)
             same == SelectSeq(sorted, LAMBDA x : x = a)
             rest == SelectSeq(sorted, LAMBDA x : x # a)
         IN  <<[age |-> a, count |-> Len(same)]>> \o Runs(rest)

\* the fire ages counted per age and sorted by age
FireAgeDistribution_Unsorted(ages) == Runs(ages)
FireAgeDistribution(ages) == Runs(SortAsc(ages))

\* sortedFireAges[Math.floor(numSimulations / 2)] ?? currentAge
MedianFireAge(ages, n, currentAge) ==
    LET sorted == SortAsc(ages)
    IN  IF n \div 2 < Len(sorted) THEN sorted[n \div 2 + 1] ELSE currentAge

NoMcResult == [numSimulations |-> 0]

\* the MonteCarloResult is built and returned
MCAggregate ==
    /\ mcPc = "path"
    /\ sim >= numSimulations
    /\ mcResult' =
           [percentiles |-> Percentiles(allPaths, numSimulations, mcMaxYears),
            ages |-> [k \in 1 .. mcMaxYears |-> mcInputs.personalInfo.currentAge + k - 1],
            successRate |-> McSuccessRate(allPaths, numSimulations, mcMaxYears),
            fireAgeDistribution |-> FireAgeDistribution(fireAges),
            medianFireAge |-> MedianFireAge(fireAges, numSimulations,
                                            mcInputs.personalInfo.currentAge),
            numSimulations |-> numSimulations]
    /\ mcPc' = "done"
    /\ UNCHANGED <<mcInputs, numSimulations, targetFireAge, rngState, sim, mcLocals,
                   allPaths, fireAges, mcCallNo, mcFirstResult>>
    /\ UNCHANGED <<calcVars, hookVars, finVars, storeVars>>

\* a second call of runMonteCarlo with the same arguments
MCCallAgain ==
    /\ mcPc = "done"
    /\ mcCallNo = 1
    /\ mcCallNo' = 2
    /\ mcFirstResult' = mcResult
    /\ mcResult' = NoMcResult
    /\ mcPc' = "start"
    /\ UNCHANGED <<mcInputs, numSimulations, targetFireAge, rngState, sim, mcLocals,
                   allPaths, fireAges>>
    /\ UNCHANGED <<calcVars, hookVars, finVars, storeVars>>

NextMC == MCStart \/ MCAccumulateYear \/ MCDrawdownYear \/ MCNextPath \/ MCAggregate
          \/ MCCallAgain

-----------------------------------------------------------------------------
(* runMonteCarlo: the arguments drawn and the state at entry *)

Pensions == { <<[monthlyAmount |-> 5, startAge |-> MinAge + 2]>> }
RecurringIncomes ==
    { <<>>,
      <<[monthlyAmount |-> 4, startAge |-> MinAge + 1, annualGrowthRate |-> 2,
         includeInFire |-> TRUE]>> }

McInputs ==
    { [personalInfo |-> [currentAge |-> MinAge, lifeExpectancy |-> MinAge + h],
       income |-> [annualSalaryGrowth |-> 2, pensions |-> pens],
       expenses |-> [monthlyExpenses |-> 10, annualInflationRate |-> 2,
                     postRetirementExpensePercent |-> 100],
       assets |-> [investedAssets |-> inv, cashSavings |-> 0, otherAssets |-> 0,
                   debts |-> ds, realEstateAssets |-> <<>>],
       investmentStrategy |-> [expectedAnnualReturn |-> 5, annualFees |-> 0,
                               capitalGainsTaxRate |-> 26, annualVolatility |-> 12],
       fireGoals |-> [safeWithdrawalRate |-> 4, monthlyInvestment |-> mi,
                      futureExpenses |-> <<>>, futureIncomes |-> fi,
                      recurringIncomes |-> rec]] :
      h \in 0 .. MaxMcHorizon, pens \in Pensions, inv \in {200, 3000}, ds \in Debts,
      fi \in { e \in FutureIncomes : \A k \in 1 .. Len(e) : e[k].includeInFire },
      rec \in RecurringIncomes, mi \in {0, 5} }

\* the targetFireAge arguments: none, below currentAge, inside and beyond the horizon
TargetFireAges == {NULL, MinAge - 1, MinAge + 1, MinAge + MaxMcHorizon + 1}

\* runMonteCarlo entered (p = "start") on arguments of S x N x T, or not running
InitMCWith(S, N, T, p) ==
    /\ mcInputs \in S
    /\ numSimulations \in N
    /\ targetFireAge \in T
    /\ mcPc = p
    /\ rngState = <<0, 0>>
    /\ sim = 0
    /\ mcLocals = FreshPath
    /\ allPaths = <<>>
    /\ fireAges = <<>>
    /\ mcResult = NoMcResult
    /\ mcCallNo = 1
    /\ mcFirstResult = NoMcResult

-----------------------------------------------------------------------------
(* useMonteCarloWorker and the worker it drives *)

NoTimer == [inputs |-> NULL]
NoMc == [of |-> NoTimer]

\* the dependencies of the deep-compare effect
HookProps ==
    { [inputs |-> k, numSimulations |-> 1, targetFireAge |-> t] :
        k \in {0, 1}, t \in {NULL, MinAge + 1} }

\* the effect of the dependencies p: the pending timer is cleared, isComputing
\* is set and a new timer is started
DebounceEffect(p) ==
    /\ props' = p
    /\ debounceRef' = p
    /\ isComputing' = TRUE

\* the state after the first render and its effects
InitHook ==
    /\ mounted = TRUE
    /\ props \in HookProps
    /\ requestIdRef = 0
    /\ debounceRef = props
    /\ workerInbox = <<>>
    /\ mainInbox = <<>>
    /\ mc = NoMc
    /\ isComputing = TRUE

\* no component uses the hook
IdleHook ==
    /\ mounted = FALSE
    /\ props = CHOOSE p \in HookProps : p.inputs = 0 /\ p.targetFireAge = NULL
    /\ requestIdRef = 0
    /\ debounceRef = NoTimer
    /\ workerInbox = <<>>
    /\ mainInbox = <<>>
    /\ mc = NoMc
    /\ isComputing = TRUE

\* a render with dependencies that are not deep-equal to the last ones
ChangeInputs ==
    /\ mounted
    /\ requestIdRef < MaxRequests
    /\ \E p \in HookProps : p # props /\ DebounceEffect(p)
    /\ UNCHANGED <<mounted, requestIdRef, workerInbox, mainInbox, mc>>
    /\ UNCHANGED <<calcVars, mcVars, finVars, storeVars>>

\* the debounce timer fires: the request is numbered and posted
TimerFire ==
    /\ mounted
    /\ debounceRef # NoTimer
    /\ requestIdRef' = requestIdRef + 1
    /\ workerInbox' = Append(workerInbox,
                             [id |-> requestIdRef + 1, inputs |-> debounceRef.inputs,
                              numSimulations |-> debounceRef.numSimulations,
                              targetFireAge |-> debounceRef.targetFireAge])
    /\ debounceRef' = NoTimer
    /\ UNCHANGED <<mounted, props, mainInbox, mc, isComputing>>
    /\ UNCHANGED <<calcVars, mcVars, finVars, storeVars>>

\* the MonteCarloResult of a request, named by the arguments it was computed from
WorkerResult_NoTarget(req) == [of |-> [inputs |-> req.inputs, numSimulations |-> req.numSimulations, targetFireAge |-> NULL]]
WorkerResult(req) ==
    [of |-> [inputs |-> req.inputs, numSimulations |-> req.numSimulations,
             targetFireAge |-> req.targetFireAge]]

\* self.onmessage of the worker: the oldest request is computed and answered
WorkerHandle ==
    /\ mounted
    /\ workerInbox # <<>>
    /\ mainInbox' = Append(mainInbox, [id |-> Head(workerInbox).id,
                                       result |-> WorkerResult(Head(workerInbox))])
    /\ workerInbox' = Tail(workerInbox)
    /\ UNCHANGED <<mounted, props, requestIdRef, debounceRef, mc, isComputing>>
    /\ UNCHANGED <<calcVars, mcVars, finVars, storeVars>>

\* worker.onmessage of the hook: the oldest response is stored or dropped
OnMessage ==
    /\ mounted
    /\ mainInbox # <<>>
    /\ IF Head(mainInbox).id = requestIdRef
       THEN mc' = Head(mainInbox).result /\ isComputing' = FALSE
       ELSE UNCHANGED <<mc, isComputing>>
    /\ mainInbox' = Tail(mainInbox)
    /\ UNCHANGED <<mounted, props, requestIdRef, debounceRef, workerInbox>>
    /\ UNCHANGED <<calcVars, mcVars, finVars, storeVars>>

\* unmount: the pending timer is cleared and the worker is terminated
Unmount ==
    /\ mounted
    /\ mounted' = FALSE
    /\ debounceRef' = NoTimer
    /\ workerInbox' = <<>>
    /\ mainInbox' = <<>>
    /\ UNCHANGED <<props, requestIdRef, mc, isComputing>>
    /\ UNCHANGED <<calcVars, mcVars, finVars, storeVars>>

NextHook == ChangeInputs \/ TimerFire \/ WorkerHandle \/ OnMessage \/ Unmount

-----------------------------------------------------------------------------
(* Specifications: one engine runs, the others rest *)

IdleCalc ==
    InitWith({CHOOSE inp \in FireInputs :
                /\ inp.personalInfo.lifeExpectancy = inp.personalInfo.currentAge
                /\ inp.assets.investedAssets = 0}, "idle")
IdleMC ==
    InitMCWith({CHOOSE inp \in McInputs :
                  /\ inp.personalInfo.lifeExpectancy = inp.personalInfo.currentAge
                  /\ inp.assets.investedAssets = 200}, {1}, {NULL}, "idle")

\* no call of financial.ts on its own, no store
NoSolver == [pc |-> "idle"]
NoInputs == [personalInfo |-> NULL]
NoStore == [inputs |-> NoInputs, result |-> NoResult]
IdleFin == calls = <<>> /\ solver = NoSolver
IdleStore == store = NoStore /\ pending = NoInputs

NextCalc == AccumulateYear \/ DrawdownYear \/ Finish

\* one call of calculateFire
Init == InitWith(FireInputs, "loop") /\ IdleMC /\ IdleHook /\ IdleFin /\ IdleStore
Next == NextCalc
Spec == Init /\ [][Next]_vars

\* two calls of calculateFire with the same inputs while the clock runs
InitClock == InitWith(ClockInputs, "loop") /\ IdleMC /\ IdleHook /\ IdleFin /\ IdleStore
NextClock == NextCalc \/ CallAgain \/ Tick
SpecClock == InitClock /\ [][NextClock]_vars

\* two calls of runMonteCarlo with the same arguments
InitMC ==
    /\ IdleCalc /\ InitMCWith(McInputs, 1 .. MaxSims, TargetFireAges, "start") /\ IdleHook
    /\ IdleFin /\ IdleStore
SpecMC == InitMC /\ [][NextMC]_vars

\* one call of either engine
InitEngines == Init \/ InitMC
NextEngines == NextCalc \/ NextMC
SpecEngines == InitEngines /\ [][NextEngines]_vars

\* a mounted hook and its worker
InitHookSpec == IdleCalc /\ IdleMC /\ InitHook /\ IdleFin /\ IdleStore
SpecHook == InitHookSpec /\ [][NextHook]_vars

-----------------------------------------------------------------------------
(* Properties of the two year loops *)

\* C1: in the year loop of calculateFire and in every path of runMonteCarlo,
\* a year that is Retired is followed only by Retired years, and a fireAge
\* once assigned is never overwritten by a later year.
C1_RetiredIsTerminal ==
    [][/\ isRetired => isRetired'
       /\ fireAge # NULL => fireAge' = fireAge
       /\ (mcPc = "path" /\ sim' = sim) =>
              /\ mcLocals.isRetired => mcLocals'.isRetired
              /\ mcLocals.fireAge # NULL => mcLocals'.fireAge = mcLocals.fireAge]_vars

\* a later path of a Monte Carlo run that retired before its last two years
C1_Witness ==
    /\ mcPc = "path"
    /\ sim >= 1
    /\ mcLocals.isRetired
    /\ mcLocals.i = mcMaxYears
    /\ mcLocals.fireAge + 2 <= mcInputs.personalInfo.lifeExpectancy

-----------------------------------------------------------------------------
(* Properties of runMonteCarlo *)

\* C7: two calls of runMonteCarlo with identical inputs, numSimulations and
\* targetFireAge return identical percentile arrays, success rate, FIRE-age
\* distribution and median fire age.
C7_SameArgumentsSameResult ==
    (mcCallNo = 2 /\ mcPc = "done") => mcResult = mcFirstResult

\* a second call has returned bands that the random returns spread apart
C7_Witness ==
    /\ mcCallNo = 2
    /\ mcPc = "done"
    /\ numSimulations >= 2
    /\ \E k \in 1 .. mcMaxYears :
           mcResult.percentiles.p10[k] < mcResult.percentiles.p90[k]

RecordedFireAges ==
    { mcResult.fireAgeDistribution[k].age : k \in 1 .. Len(mcResult.fireAgeDistribution) }
        \cup {mcResult.medianFireAge}

\* C9 as stated: with targetFireAge supplied, every recorded fire age is at
\* least targetFireAge, whatever targetFireAge and the inputs are.
C9_AtLeastTarget ==
    (mcPc = "done" /\ targetFireAge # NULL) =>
        \A a \in RecordedFireAges : a >= targetFireAge

\* C9: with targetFireAge supplied, every recorded fire age is the first
\* simulated age that is at least targetFireAge, and so at least targetFireAge,
\* when targetFireAge <= lifeExpectancy; it is lifeExpectancy when
\* targetFireAge > lifeExpectancy.
C9_AtLeastTargetWithinHorizon ==
    (mcPc = "done" /\ targetFireAge # NULL) =>
        \A a \in RecordedFireAges :
            a = IF targetFireAge > mcInputs.personalInfo.lifeExpectancy
                THEN mcInputs.personalInfo.lifeExpectancy
                ELSE Max(targetFireAge, mcInputs.personalInfo.currentAge)

\* several paths were pinned to a target age inside the horizon
C9_Witness ==
    /\ mcPc = "done"
    /\ numSimulations >= 2
    /\ targetFireAge # NULL
    /\ targetFireAge > mcInputs.personalInfo.currentAge
    /\ targetFireAge <= mcInputs.personalInfo.lifeExpectancy
    /\ mcResult.medianFireAge = targetFireAge
    /\ mcResult.fireAgeDistribution = <<[age |-> targetFireAge, count |-> numSimulations]>>

-----------------------------------------------------------------------------
(* Properties of useMonteCarloWorker *)

\* C10: a response computed for dependencies that an input change has since
\* superseded is never stored into mc and never clears isComputing.
C10_StaleResponseDiscarded ==
    [][(/\ mounted'
        /\ mainInbox # <<>>
        /\ mainInbox' = Tail(mainInbox)
        /\ Head(mainInbox).result.of # props)
           => (mc' = mc /\ isComputing' = isComputing)]_vars

-----------------------------------------------------------------------------
(* calculateFire called twice, the second call with a larger contribution *)

\* what the second call adds to fireGoals.monthlyInvestment
InvestmentSteps == {50, 400}

\* a second call whose inputs differ only in fireGoals.monthlyInvestment
CallWithMore ==
    /\ pc = "done"
    /\ callNo = 1
    /\ \E more \in InvestmentSteps :
          /\ inputs' = [inputs EXCEPT !.fireGoals.monthlyInvestment = @ + more]
          /\ EnterLoop(inputs')
    /\ callNo' = 2
    /\ firstResult' = result
    /\ result' = NoResult
    /\ UNCHANGED now
    /\ UNCHANGED <<mcVars, hookVars, finVars, storeVars>>

NextInvest == NextCalc \/ CallWithMore
SpecInvest == Init /\ [][NextInvest]_vars

\* C11 as stated: of two calls that differ only in fireGoals.monthlyInvestment,
\* the one with the larger contribution returns a strictly smaller fireAge and
\* yearsToFire.
C11_StrictlyEarlier ==
    (callNo = 2 /\ pc = "done") =>
        /\ result.fireAge < firstResult.fireAge
        /\ result.yearsToFire < firstResult.yearsToFire

\* C11 amended: the call with the larger contribution never returns a larger
\* fireAge or yearsToFire; they are equal when the smaller contribution
\* already retires in the first year.
C11_NeverLater ==
    (callNo = 2 /\ pc = "done") =>
        /\ result.fireAge <= firstResult.fireAge
        /\ result.yearsToFire <= firstResult.yearsToFire
        /\ firstResult.fireAge = inputs.personalInfo.currentAge
              => result.fireAge = firstResult.fireAge

\* the larger contribution retired strictly earlier, inside the horizon
C11_Witness ==
    /\ callNo = 2
    /\ pc = "done"
    /\ result.fireAge < firstResult.fireAge
    /\ result.fireAge > inputs.personalInfo.currentAge
    /\ result.yearsToFire < firstResult.yearsToFire

-----------------------------------------------------------------------------
(* financial.ts: requiredPortfolio without lifeExpectancy (closed form) *)

RECURSIVE SumAnnual(_)
\* .reduce((s, p) => s + p.annualAmount, 0)
SumAnnual(pensions) ==
    IF pensions = <<>> THEN 0
    ELSE Head(pensions).annualAmount + SumAnnual(Tail(pensions))

RECURSIVE SortedAges(_)
\* [...new Set(ages)].sort((a, b) => a - b)
SortedAges(S) ==
    IF S = {} THEN <<>>
    ELSE LET m == CHOOSE x \in S : \A y \in S : x <= y
         IN  <<m>> \o SortedAges(S \ {m})

\* the distinct start ages after fireAge, ascending
Breakpoints(active, fAge) ==
    SortedAges({ active[k].startAge :
                   k \in { j \in 1 .. Len(active) : active[j].startAge > fAge } })

\* Math.max(0, retExpensesToday - pension)
Shortfall_Unfloored(retExpensesToday, pension) == retExpensesToday - pension
Shortfall(retExpensesToday, pension) == Max(0, retExpensesToday - pension)

RECURSIVE Segments(_, _, _, _, _, _)
\* for (let i = ages.length - 1; i >= 1; i--) from i = k on; ages[i - 1] of
\* the source is ages[k] here
Segments(k, ages, neededPortfolio, retExpensesToday, active, rReturn) ==
    IF k < 1 THEN neededPortfolio
    ELSE LET segStart == ages[k]
             segEnd == ages[k + 1]
             duration == segEnd - segStart
             activePension == PensionsFrom(active, segStart)
             withdrawal == Shortfall(retExpensesToday, activePension)
         IN  Segments(k - 1, ages,
                      Mul(withdrawal, annuityPV(duration, rReturn))
                      + Div(neededPortfolio, Pow(ONE + rReturn, duration)),
                      retExpensesToday, active, rReturn)

\* requiredPortfolio(retExpensesToday, pensions, fireAge, swr, realReturn)
requiredPortfolioClosed(retExpensesToday, pensions, fAge, swr_, rReturn) ==
    LET active == SelectSeq(pensions, LAMBDA q : q.annualAmount > 0)
        totalPension == SumAnnual(active)
        breakpoints == Breakpoints(active, fAge)
        finalShortfall == Shortfall(retExpensesToday, totalPension)
    IN  IF Len(active) = 0 THEN Div(retExpensesToday, swr_)
        ELSE IF Len(breakpoints) = 0 THEN Div(finalShortfall, swr_)
        ELSE Segments(Len(breakpoints), <<fAge>> \o breakpoints,
                      Div(finalShortfall, swr_), retExpensesToday, active, rReturn)

-----------------------------------------------------------------------------
(* financial.ts called on its own: the arguments drawn and the calls *)

FinAge == 60             \* the fireAge of the calls
MaxGap == 3              \* a pension starts at most this long after FinAge

PensionEntry(amount, age) == [annualAmount |-> amount, startAge |-> age]

\* the pensions arguments: none, one (also of amount 0), two
PensionArgs ==
    { <<>>, <<PensionEntry(0, FinAge + 1)>> }
    \cup { <<PensionEntry(amt, s)>> :
             amt \in {1200, 4000}, s \in FinAge - 2 .. FinAge + MaxGap }
    \cup { <<PensionEntry(1200, s1), PensionEntry(amt2, s2)>> :
             s1 \in {FinAge, FinAge + 2}, amt2 \in {10, 600},
             s2 \in {FinAge, FinAge + 2, FinAge + MaxGap} }
    \cup { <<PensionEntry(4000, FinAge), PensionEntry(600, FinAge)>> }

\* the arguments of requiredPortfolio in closed-form mode
ClosedArgs ==
    { [retExpensesToday |-> e, pensions |-> ps, fireAge |-> fa, swr |-> 40,
       realReturn |-> r] :
      e \in {0, 3000}, ps \in PensionArgs, fa \in {FinAge, FinAge + 1},
      r \in {0, 20, 40, 80} }

\* the call and the value it returns
ClosedCall(a, how) ==
    [fn |-> "requiredPortfolio", how |-> how, args |-> a,
     out |-> requiredPortfolioClosed(a.retExpensesToday, a.pensions, a.fireAge,
                                     a.swr, a.realReturn)]

\* the years between fireAge and the start of the first pension
GapOf(a) == Max(0, a.pensions[1].startAge - a.fireAge)

\* requiredPortfolio is called
CallRequiredPortfolio ==
    /\ calls = <<>>
    /\ \E a \in ClosedArgs : calls' = <<ClosedCall(a, "first")>>
    /\ UNCHANGED solver
    /\ UNCHANGED <<calcVars, mcVars, hookVars, storeVars>>

\* a second call that differs from the first in a later pension start or an
\* earlier fireAge only, the gap between the two being wider
CallWiderGap ==
    /\ Len(calls) = 1
    /\ calls[1].fn = "requiredPortfolio"
    /\ Len(calls[1].args.pensions) = 1
    /\ \E a \in ClosedArgs :
          /\ a.retExpensesToday = calls[1].args.retExpensesToday
          /\ a.swr = calls[1].args.swr
          /\ a.realReturn = calls[1].args.realReturn
          /\ Len(a.pensions) = 1
          /\ a.pensions[1].annualAmount = calls[1].args.pensions[1].annualAmount
          /\ \/ a.fireAge = calls[1].args.fireAge
             \/ a.pensions[1].startAge = calls[1].args.pensions[1].startAge
          /\ GapOf(a) > GapOf(calls[1].args)
          /\ calls' = Append(calls, ClosedCall(a, "widerGap"))
    /\ UNCHANGED solver
    /\ UNCHANGED <<calcVars, mcVars, hookVars, storeVars>>

\* the larger of two pensions
LargerOf(ps) == IF ps[1].annualAmount >= ps[2].annualAmount THEN ps[1] ELSE ps[2]

\* a second call that differs from the first in keeping only the larger of
\* its two pensions
CallLargerOnly ==
    /\ Len(calls) = 1
    /\ calls[1].fn = "requiredPortfolio"
    /\ Len(calls[1].args.pensions) = 2
    /\ calls' = Append(calls,
           ClosedCall([calls[1].args EXCEPT !.pensions = <<LargerOf(@)>>], "largerOnly"))
    /\ UNCHANGED solver
    /\ UNCHANGED <<calcVars, mcVars, hookVars, storeVars>>


MaxDrawdown == 3         \* lifeExpectancy - fireAge of the survivesDrawdown calls

\* the arguments of survivesDrawdown
DrawdownArgs ==
    { [startPortfolio |-> sp, retExpenses |-> 1000, inflation |-> infl,
       netReturn |-> r, pensions |-> ps, fireAge |-> FinAge, fireYearIdx |-> idx,
       lifeExpectancy |-> FinAge + h, debts |-> ds, futureIncomes |-> fi,
       futureExpenses |-> fe, recurringIncomes |-> rec] :
      sp \in {0, 1000, 5000}, infl \in {0, 20}, r \in {0, 50},
      ps \in { <<>>, <<PensionEntry(600, FinAge + 2)>> }, idx \in {0, 1},
      h \in 0 .. MaxDrawdown,
      ds \in { <<>>, <<[monthlyPayment |-> 20, yearsLeft |-> 2]>> },
      fi \in { <<>>, <<[amount |-> 3000, yearsFromNow |-> 2]>> },
      fe \in { <<>>, <<[amount |-> 2000, yearsFromNow |-> 1]>> },
      rec \in { <<>>, <<[annualAmount |-> 200, startAge |-> FinAge + 1,
                         annualGrowthRate |-> 20, includeInFire |-> TRUE]>> } }

\* survivesDrawdown is called
CallSurvivesDrawdown ==
    /\ calls = <<>>
    /\ \E a \in DrawdownArgs :
          calls' = <<[fn |-> "survivesDrawdown", how |-> "first", args |-> a,
                      out |-> survivesDrawdownMulti(a.startPortfolio, a.retExpenses,
                                  a.inflation, a.netReturn, a.pensions, a.fireAge,
                                  a.fireYearIdx, a.lifeExpectancy, a.debts,
                                  a.futureIncomes, a.futureExpenses,
                                  a.recurringIncomes)]>>
    /\ UNCHANGED solver
    /\ UNCHANGED <<calcVars, mcVars, hookVars, storeVars>>

\* the closed-form requiredPortfolio and survivesDrawdown, called on their own
InitFinancial == IdleCalc /\ IdleMC /\ IdleHook /\ IdleFin /\ IdleStore
NextFinancial ==
    CallRequiredPortfolio \/ CallWiderGap \/ CallLargerOnly \/ CallSurvivesDrawdown
SpecFinancial == InitFinancial /\ [][NextFinancial]_vars

-----------------------------------------------------------------------------
(* Properties of requiredPortfolio (closed form) and survivesDrawdown *)

\* the positive pension amounts of a call, summed
PositivePensions(a) == SumAnnual(SelectSeq(a.pensions, LAMBDA q : q.annualAmount > 0))

\* no pension with a positive amount starts strictly after fireAge
NoneStartsLater(a) ==
    \A k \in 1 .. Len(a.pensions) :
        a.pensions[k].annualAmount > 0 => a.pensions[k].startAge <= a.fireAge

\* C12: in closed-form mode, when no pension with a positive amount starts
\* strictly after fireAge, requiredPortfolio returns
\* max(0, retExpensesToday - sum of the positive pension amounts) / swr, which
\* is never negative.
C12_NoGapIsShortfallOverSwr ==
    \A k \in 1 .. Len(calls) :
        (calls[k].fn = "requiredPortfolio" /\ NoneStartsLater(calls[k].args)) =>
            /\ calls[k].out =
                   Div(Max(0, calls[k].args.retExpensesToday
                              - PositivePensions(calls[k].args)),
                       calls[k].args.swr)
            /\ calls[k].out >= 0

\* pensions already running at fireAge cover more than the expenses: 0 returned
C12_Witness ==
    /\ Len(calls) = 1
    /\ calls[1].fn = "requiredPortfolio"
    /\ NoneStartsLater(calls[1].args)
    /\ calls[1].args.retExpensesToday > 0
    /\ PositivePensions(calls[1].args) > calls[1].args.retExpensesToday
    /\ calls[1].out = 0

\* C13: for fixed positive expenses, positive pension amount, swr and
\* realReturn, a wider gap between fireAge and the pension start gives a
\* strictly larger required portfolio.
C13_WiderGapCostsMore ==
    (/\ Len(calls) = 2
     /\ calls[2].how = "widerGap"
     /\ calls[1].args.retExpensesToday > 0
     /\ calls[1].args.pensions[1].annualAmount > 0) =>
        calls[2].out > calls[1].out

\* C14: the required portfolio with two pensions of positive amount, the
\* larger not covering the expenses on its own, is strictly less than the
\* required portfolio with only the larger of the two.
C14_TwoPensionsBeatOne ==
    (/\ Len(calls) = 2
     /\ calls[2].how = "largerOnly"
     /\ calls[1].args.pensions[1].annualAmount > 0
     /\ calls[1].args.pensions[2].annualAmount > 0
     /\ calls[1].args.retExpensesToday > LargerOf(calls[1].args.pensions).annualAmount) =>
        calls[1].out < calls[2].out


RECURSIVE ExpensesOfYear(_, _)
\* the expenses of year y of a survivesDrawdown call: retExpenses, raised by
\* inflation once per year already stepped
ExpensesOfYear(a, y) ==
    IF y = 0 THEN a.retExpenses
    ELSE Mul(ExpensesOfYear(a, y - 1), ONE + a.inflation)

\* what the portfolio of a survivesDrawdown call loses or gains in year y
\* besides its return
NetFlowOfYear(a, y) ==
    LET age == a.fireAge + y
        absYear == a.fireYearIdx + y
        spend == ExpensesOfYear(a, y) + DebtPayAt(a.debts, y)
        income == PensionIncomeNominal(a.pensions, age, a.inflation, absYear)
                  + RecurringIncomeNominal(a.recurringIncomes, age, absYear)
    IN  OneTimeAt(a.futureIncomes, absYear) - OneTimeAt(a.futureExpenses, absYear)
        - Max(0, spend - income)

RECURSIVE PortfolioAfter(_, _)
\* the portfolio after the update of year y, stepping every year
PortfolioAfter(a, y) ==
    IF y < 0 THEN a.startPortfolio
    ELSE LET before == PortfolioAfter(a, y - 1)
         IN  before + Mul(before, a.netReturn) + NetFlowOfYear(a, y)

\* C15: survivesDrawdown returns false exactly when, stepping year by year
\* from fireAge to lifeExpectancy inclusive, the portfolio is negative after
\* some year's update, and true when it is at least 0 after every one of the
\* lifeExpectancy - fireAge + 1 years.
C15_FalseIffSomeYearNegative ==
    \A k \in 1 .. Len(calls) :
        calls[k].fn = "survivesDrawdown" =>
            (calls[k].out <=>
                \A y \in 0 .. calls[k].args.lifeExpectancy - calls[k].args.fireAge :
                    PortfolioAfter(calls[k].args, y) >= 0)

\* a call that returns false because only the first year ends negative, and
\* one-time income would have lifted the portfolio afterwards
C15_Witness ==
    /\ Len(calls) = 1
    /\ calls[1].fn = "survivesDrawdown"
    /\ ~calls[1].out
    /\ calls[1].args.lifeExpectancy - calls[1].args.fireAge >= 2
    /\ PortfolioAfter(calls[1].args, 0) < 0
    /\ \A y \in 1 .. calls[1].args.lifeExpectancy - calls[1].args.fireAge :
           PortfolioAfter(calls[1].args, y) >= 0

-----------------------------------------------------------------------------
(* financial.ts: requiredPortfolio with lifeExpectancy, statement by        *)
(* statement                                                                *)

\* the arguments of requiredPortfolio in finite-horizon mode; a realReturn of
\* -ONE loses the whole portfolio every year, so no start portfolio survives
FiniteArgs ==
    { [retExpensesToday |-> e, pensions |-> ps, fireAge |-> FinAge, swr |-> w,
       realReturn |-> r, lifeExpectancy |-> FinAge + h, inflation |-> infl,
       recurringIncomes |-> rec] :
      e \in {0, 1000},
      ps \in { <<>>, <<PensionEntry(600, FinAge + 1)>>, <<PensionEntry(1200, FinAge)>> },
      w \in {5, 40, 2000}, r \in {0 - ONE, 0, 30}, h \in 0 .. MaxDrawdown, infl \in {0, 20},
      rec \in { <<>>, <<[annualAmount |-> 200, startAge |-> FinAge + 1,
                         annualGrowthRate |-> 20, includeInFire |-> TRUE]>> } }

\* survivesFrom(startPortfolio) of the call with arguments a
SurvivesFrom(a, start) ==
    SurvivesFromAge(a.fireAge, start, a.retExpensesToday,
                    SelectSeq(a.pensions, LAMBDA q : q.annualAmount > 0), a.fireAge,
                    a.realReturn, a.lifeExpectancy, a.inflation, a.recurringIncomes)

\* the function is entered
SolverAt(a) == [pc |-> "entry", args |-> a, low |-> 0, high |-> 0, top |-> 0,
                i |-> 0, doublings |-> 0, out |-> NULL]

\* if (retExpensesToday <= 0) return 0; let low = 0; let high = ...
SolverEnter ==
    /\ solver.pc = "entry"
    /\ solver' =
          IF solver.args.retExpensesToday <= 0
          THEN [solver EXCEPT !.pc = "done", !.out = 0]
          ELSE [solver EXCEPT
                   !.pc = "doubling",
                   !.low = 0,
                   !.high = Max(Div(solver.args.retExpensesToday,
                                    Max(10, solver.args.swr)),
                                solver.args.retExpensesToday) * 2]
    /\ UNCHANGED calls
    /\ UNCHANGED <<calcVars, mcVars, hookVars, storeVars>>

\* the condition of the while loop
StillDoubling(s) == ~SurvivesFrom(s.args, s.high) /\ s.high < BisectionCeiling

\* high *= 2
SolverDouble ==
    /\ solver.pc = "doubling"
    /\ StillDoubling(solver)
    /\ solver' = [solver EXCEPT !.high = @ * 2, !.doublings = @ + 1]
    /\ UNCHANGED calls
    /\ UNCHANGED <<calcVars, mcVars, hookVars, storeVars>>

\* the while loop is left
SolverStartBisect ==
    /\ solver.pc = "doubling"
    /\ ~StillDoubling(solver)
    /\ solver' = [solver EXCEPT !.pc = "bisect", !.i = 0, !.top = solver.high]
    /\ UNCHANGED calls
    /\ UNCHANGED <<calcVars, mcVars, hookVars, storeVars>>

\* (low + high) / 2 on the integer grid
Mid(low, high) == low + (high - low) \div 2

\* if (survivesFrom(mid)) high = mid; else low = mid
NextBounds_Swapped(low, high, mid, ok) == IF ok THEN <<mid, high>> ELSE <<low, mid>>
NextBounds(low, high, mid, ok) == IF ok THEN <<low, mid>> ELSE <<mid, high>>

\* the condition of the for loop
BisectRunning_OneShort(k) == k < BisectionIterations - 1
BisectRunning(k) == k < BisectionIterations

\* one iteration of the bisection
SolverBisect ==
    /\ solver.pc = "bisect"
    /\ BisectRunning(solver.i)
    /\ \E mid \in {Mid(solver.low, solver.high)} :
       \E b \in {NextBounds(solver.low, solver.high, mid, SurvivesFrom(solver.args, mid))} :
          solver' = [solver EXCEPT !.low = b[1], !.high = b[2], !.i = @ + 1]
    /\ UNCHANGED calls
    /\ UNCHANGED <<calcVars, mcVars, hookVars, storeVars>>

\* return high
SolverReturn ==
    /\ solver.pc = "bisect"
    /\ ~BisectRunning(solver.i)
    /\ solver' = [solver EXCEPT !.pc = "done", !.out = solver.high]
    /\ UNCHANGED calls
    /\ UNCHANGED <<calcVars, mcVars, hookVars, storeVars>>

InitSolver ==
    /\ IdleCalc /\ IdleMC /\ IdleHook /\ IdleStore
    /\ calls = <<>>
    /\ solver \in { SolverAt(a) : a \in FiniteArgs }
NextSolver ==
    SolverEnter \/ SolverDouble \/ SolverStartBisect \/ SolverBisect \/ SolverReturn
SpecSolver == InitSolver /\ [][NextSolver]_vars

\* the statements of the function are executed one after the other
SpecSolverLive == SpecSolver /\ WF_vars(NextSolver)

-----------------------------------------------------------------------------
(* Properties of requiredPortfolio in finite-horizon mode *)

\* start portfolios below v: none, the least, one in the middle, the next smaller
SmallerStarts(v) == { w \in {0, v \div 2, v - 1} : w >= 0 /\ w < v }

\* the call has returned, retExpensesToday being positive
SolverReturned == solver.pc = "done" /\ solver.args.retExpensesToday > 0

\* C16 as stated: in finite-horizon mode with retExpensesToday > 0 the value
\* returned is the minimal feasible start portfolio: the simulation from it
\* never goes negative, and the simulation from a smaller start does.
C16_MinimalFeasible ==
    SolverReturned =>
        /\ SurvivesFrom(solver.args, solver.out)
        /\ \A w \in SmallerStarts(solver.out) : ~SurvivesFrom(solver.args, w)

\* C16 amended: the value returned is the minimal feasible start portfolio
\* when the upper bound the doubling loop stopped at is feasible; when the
\* loop stopped at the ceiling with an infeasible bound, that bound is
\* returned although the simulation from it goes negative.
C16_MinimalFeasibleBelowCeiling ==
    SolverReturned =>
        IF SurvivesFrom(solver.args, solver.top)
        THEN /\ SurvivesFrom(solver.args, solver.out)
             /\ \A w \in SmallerStarts(solver.out) : ~SurvivesFrom(solver.args, w)
        ELSE /\ solver.out = solver.top
             /\ solver.top >= BisectionCeiling
             /\ ~SurvivesFrom(solver.args, solver.out)

\* a positive minimum found by bisection below a bound that had to be doubled
C16_Witness ==
    /\ SolverReturned
    /\ solver.doublings > 0
    /\ SurvivesFrom(solver.args, solver.top)
    /\ solver.out > 0
    /\ solver.out < solver.top
    /\ ~SurvivesFrom(solver.args, solver.out - 1)

\* C17: the finite-horizon solver always terminates; with retExpensesToday > 0
\* the doubling loop has stopped at a bound that is feasible or has reached
\* the ceiling of 1,000,000,000, no later than the first such bound, and the
\* bisection has run exactly 60 iterations.
C17_SolverTerminates ==
    /\ <>(solver.pc = "done")
    /\ [](SolverReturned =>
             /\ solver.i = 60
             /\ SurvivesFrom(solver.args, solver.top) \/ solver.top >= BisectionCeiling
             /\ solver.doublings > 0 => solver.top \div 2 < BisectionCeiling)

\* the doubling loop ran up to the ceiling and the bisection still ran 60 times
C17_Witness ==
    /\ SolverReturned
    /\ solver.doublings > 1
    /\ solver.top >= BisectionCeiling
    /\ ~SurvivesFrom(solver.args, solver.top)
    /\ solver.i = 60

-----------------------------------------------------------------------------
(* Properties of the FireResult *)

\* the indices of the retired-phase projections of the result
RetiredYears == { k \in 1 .. Len(result.yearlyProjections) :
                    result.yearlyProjections[k].isRetired }

\* those of them that show a portfolio above 0
PositiveRetiredYears == { k \in RetiredYears : result.yearlyProjections[k].portfolioValue > 0 }

\* C18: successRate is 100 times the number of retired-phase projections with
\* portfolioValue > 0 over the number of retired-phase projections, is 100
\* when there is no retired-phase projection, and lies within [0, 100].
C18_SuccessRateIsShareOfPositiveYears ==
    pc = "done" =>
        /\ result.successRate =
               IF RetiredYears = {} THEN 100 * ONE
               ELSE (Cardinality(PositiveRetiredYears) * 100 * ONE)
                    \div Cardinality(RetiredYears)
        /\ result.successRate >= 0
        /\ result.successRate <= 100 * ONE

\* some retired years show a positive portfolio and some do not
C18_Witness ==
    /\ pc = "done"
    /\ Cardinality(RetiredYears) >= 2
    /\ PositiveRetiredYears # {}
    /\ PositiveRetiredYears # RetiredYears
    /\ result.successRate > 0
    /\ result.successRate < 100 * ONE



RECURSIVE DebtShareOfYear(_, _)
\* what the debts of the inputs owe in the projection year of index k: the
\* yearly payment of each debt with remainingYears > k
DebtShareOfYear(debts, k) ==
    IF debts = <<>> THEN 0
    ELSE (IF k < Head(debts).remainingYears THEN Head(debts).monthlyPayment * 12 ELSE 0)
         + DebtShareOfYear(Tail(debts), k)

\* C20: a debt with remainingYears = k contributes monthlyPayment * 12 to
\* annualDebtPayments in exactly the projection years of index 0 .. k-1, in
\* both phases, and contributes 0 in every year of index >= k.
C20_DebtPaidForRemainingYears ==
    \A k \in 1 .. Len(yearlyProjections) :
        yearlyProjections[k].annualDebtPayments =
            DebtShareOfYear(inputs.assets.debts, k - 1)

\* a debt with two years left, paid in an accumulation year and in a
\* retired year, and absent from the third year on
C20_Witness ==
    /\ pc = "done"
    /\ Len(inputs.assets.debts) = 1
    /\ inputs.assets.debts[1].remainingYears = 2
    /\ Len(yearlyProjections) >= 4
    /\ ~yearlyProjections[1].isRetired
    /\ yearlyProjections[1].annualDebtPayments = inputs.assets.debts[1].monthlyPayment * 12
    /\ yearlyProjections[2].isRetired
    /\ yearlyProjections[2].annualDebtPayments = inputs.assets.debts[1].monthlyPayment * 12
    /\ yearlyProjections[3].annualDebtPayments = 0
    /\ yearlyProjections[4].annualDebtPayments = 0

-----------------------------------------------------------------------------
(* useFireStore: the inputs, the result and the actions that replace them *)

\* { ...a, ...b }
Merge(a, b) ==
    [k \in DOMAIN a \cup DOMAIN b |-> IF k \in DOMAIN b THEN b[k] ELSE a[k]]

\* newInputs.section, nothing when the partial inputs have no such section
SectionOf(newInputs, section) ==
    IF section \in DOMAIN newInputs THEN newInputs[section] ELSE <<>>

Sections ==
    {"personalInfo", "income", "expenses", "assets", "investmentStrategy", "fireGoals"}

\* the inputs object built by setInputs
MergeInputs(current, newInputs) ==
    [s \in Sections |-> Merge(current[s], SectionOf(newInputs, s))]

\* the inputs object built by the update action of one section
MergeSection(current, section, data) ==
    [current EXCEPT ![section] = Merge(@, data)]

\* DEFAULT_INPUTS
DefaultInputs ==
    CHOOSE inp \in FireInputs :
        /\ inp.personalInfo = [currentAge |-> MinAge, lifeExpectancy |-> MinAge + MaxHorizon]
        /\ inp.income.pensionMonthlyAmount = 0
        /\ inp.expenses.annualInflationRate = 2
        /\ inp.assets = [investedAssets |-> 2000, cashSavings |-> 0, debts |-> <<>>]
        /\ inp.investmentStrategy.expectedAnnualReturn = 5
        /\ inp.fireGoals = [safeWithdrawalRate |-> 4, monthlyInvestment |-> 50,
                            futureExpenses |-> <<>>, futureIncomes |-> <<>>]

\* the partial objects the actions are called with
SectionData ==
    [personalInfo |-> { [lifeExpectancy |-> MinAge + 2] },
     income |-> { [pensionMonthlyAmount |-> 5] },
     expenses |-> { [annualInflationRate |-> 0] },
     assets |-> { [investedAssets |-> 3000, debts |-> CHOOSE ds \in Debts : ds # <<>>] },
     investmentStrategy |-> { [expectedAnnualReturn |-> 0] },
     fireGoals |-> { [monthlyInvestment |-> 0] }]
PartialInputs ==
    { [personalInfo |-> [lifeExpectancy |-> MinAge + 1],
       fireGoals |-> [monthlyInvestment |-> 50]],
      [expenses |-> DefaultInputs.expenses] }

\* recalculate(inputs) is called by an action that then sets the state
Recalculate(inp) ==
    /\ pending = NoInputs
    /\ pc = "done"
    /\ pending' = inp
    /\ inputs' = inp
    /\ result' = NoResult
    /\ EnterLoop(inp)
    /\ UNCHANGED <<now, callNo, firstResult, store>>
    /\ UNCHANGED <<mcVars, hookVars, finVars>>

setInputs == \E newInputs \in PartialInputs : Recalculate(MergeInputs(store.inputs, newInputs))
updatePersonalInfo ==
    \E data \in SectionData.personalInfo :
        Recalculate(MergeSection(store.inputs, "personalInfo", data))
updateIncome ==
    \E data \in SectionData.income : Recalculate(MergeSection(store.inputs, "income", data))
updateExpenses ==
    \E data \in SectionData.expenses : Recalculate(MergeSection(store.inputs, "expenses", data))
updateAssets ==
    \E data \in SectionData.assets : Recalculate(MergeSection(store.inputs, "assets", data))
updateInvestmentStrategy ==
    \E data \in SectionData.investmentStrategy :
        Recalculate(MergeSection(store.inputs, "investmentStrategy", data))
updateFireGoals ==
    \E data \in SectionData.fireGoals :
        Recalculate(MergeSection(store.inputs, "fireGoals", data))
resetInputs == Recalculate(DefaultInputs)

\* the state object handed to set
NewState_KeepResult(inp, res, old) == [inputs |-> inp, result |-> old.result]
NewState(inp, res, old) == [inputs |-> inp, result |-> res]

\* set({ inputs, result: recalculate(inputs) }), recalculate having returned
SetState ==
    /\ pending # NoInputs
    /\ pc = "done"
    /\ store' = NewState(pending, result, store)
    /\ pending' = NoInputs
    /\ UNCHANGED <<calcVars, mcVars, hookVars, finVars>>

\* the store is being created: recalculate(DEFAULT_INPUTS) is running
InitStore ==
    /\ InitWith({DefaultInputs}, "loop") /\ IdleMC /\ IdleHook /\ IdleFin
    /\ store = NoStore
    /\ pending = DefaultInputs
NextStore ==
    \/ NextCalc
    \/ SetState
    \/ setInputs \/ updatePersonalInfo \/ updateIncome \/ updateExpenses
    \/ updateAssets \/ updateInvestmentStrategy \/ updateFireGoals \/ resetInputs
SpecStore == InitStore /\ [][NextStore]_vars

\* C19: after any sequence of setInputs, updatePersonalInfo, updateIncome,
\* updateExpenses, updateAssets, updateInvestmentStrategy, updateFireGoals and
\* resetInputs, the stored result is what calculateFire returned for the stored
\* inputs: result and inputs are never out of step.
C19_ResultIsOfStoredInputs ==
    pending = NoInputs =>
        /\ pc = "done"
        /\ store.inputs = inputs
        /\ store.result = result
        /\ result # NoResult

\* several sections were changed one after the other and the store holds the
\* result of the last inputs
C19_Witness ==
    /\ pending = NoInputs
    /\ store.inputs # DefaultInputs
    /\ store.inputs.personalInfo.lifeExpectancy = MinAge + 1
    /\ store.inputs.assets.investedAssets = 3000
    /\ store.inputs.income.pensionMonthlyAmount = 5
    /\ store.result = result
    /\ Len(store.result.yearlyProjections) = 2

-----------------------------------------------------------------------------
(* Properties of the retirement checks and of the retired years *)

\* the call retired in its last accumulation year, and what that year's
\* checks saw
RetiredInLoop == isRetired /\ fireChecks # <<>>
LastCheck == fireChecks[Len(fireChecks)]
RetiredByBridge == RetiredInLoop /\ ~StandardPassed(LastCheck)

\* C21: calculateFire retires through the bridge check in year i only if the
\* standard check failed in year i and an includeInFire future income lies
\* strictly ahead; bridgeGap is > 0 exactly when the bridge check retired, and
\* bridgeGap = 0 and bridgeIncomeTotal = 0 when the standard check retired or
\* FIRE was never reached.
C21_BridgeOnlyAfterStandardFails ==
    /\ RetiredByBridge => (LastCheck.bridgeAhead /\ LastCheck.survives)
    /\ pc = "done" =>
          /\ RetiredByBridge <=> result.bridgeGap > 0
          /\ ~RetiredByBridge => (result.bridgeGap = 0 /\ result.bridgeIncomeTotal = 0)
          /\ RetiredByBridge =>
                result.bridgeGap = LastCheck.adjustedRequired - LastCheck.portfolio

\* a call that retired by the bridge check, after a year in which both checks
\* failed
C21_Witness ==
    /\ pc = "done"
    /\ RetiredByBridge
    /\ Len(fireChecks) >= 2
    /\ result.bridgeGap > 0
    /\ result.bridgeIncomeTotal > 0


\* the projection pushed by the step
LastProjection == yearlyProjections'[Len(yearlyProjections')]

\* C22: retired years make no further contributions: a projection with
\* isRetired = true has annualContributions = 0 and savingsRate = 0 and the
\* cumulativeContributions of the year before; salary, additional income and
\* living expenses are no longer grown; retirementExpenses, captured at
\* retirement as living expenses times postRetirementFactor, is the only one
\* that compounds with inflation.
C22_RetiredYearsContributeNothing ==
    [][/\ (pc = "loop" /\ pc' = "loop" /\ isRetired) =>
             /\ LastProjection.isRetired
             /\ LastProjection.annualContributions = 0
             /\ LastProjection.savingsRate = 0
             /\ LastProjection.cumulativeContributions =
                    yearlyProjections[Len(yearlyProjections)].cumulativeContributions
             /\ cumulativeContributions' = cumulativeContributions
             /\ salary' = salary
             /\ additionalIncome' = additionalIncome
             /\ livingExpenses' = livingExpenses
             /\ retirementExpenses' = Mul(retirementExpenses, ONE + inflation)
       /\ (pc = "loop" /\ pc' = "loop" /\ ~isRetired) =>
             /\ ~LastProjection.isRetired
             /\ isRetired' =>
                   /\ retirementExpenses' = Mul(livingExpenses, postRetirementFactor)
                   /\ salary' = salary
                   /\ additionalIncome' = additionalIncome
                   /\ livingExpenses' = livingExpenses
      ]_vars

\* retired for at least two years under inflation: the retirement expenses
\* have grown, the living expenses and the contributions have not
C22_Witness ==
    /\ pc = "done"
    /\ inflation > 0
    /\ monthlyInvestment > 0
    /\ Cardinality(RetiredYears) >= 2
    /\ retirementExpenses > Mul(livingExpenses, postRetirementFactor)
    /\ yearlyProjections[Len(yearlyProjections)].cumulativeContributions =
           yearlyProjections[Len(yearlyProjections) - 2].cumulativeContributions


-----------------------------------------------------------------------------
(* Both engines on the same inputs, the returns drawn without volatility *)

MaxReplicaHorizon == 3

\* FireInputs objects read by both engines: no pension, no debts, no events
ReplicaInputs ==
    { [personalInfo |-> [currentAge |-> MinAge, lifeExpectancy |-> MinAge + h],
       income |-> [monthlyNetSalary |-> 200, annualSalaryGrowth |-> g,
                   additionalMonthlyIncome |-> 0,
                   pensionMonthlyAmount |-> 0, pensionStartAge |-> 65,
                   pensions |-> <<>>],
       expenses |-> [monthlyExpenses |-> 10, annualInflationRate |-> 2,
                     postRetirementExpensePercent |-> 100],
       assets |-> [investedAssets |-> inv, cashSavings |-> 0, otherAssets |-> oth,
                   debts |-> <<>>, realEstateAssets |-> <<>>],
       investmentStrategy |-> [expectedAnnualReturn |-> 5, annualFees |-> 0,
                               capitalGainsTaxRate |-> tax, annualVolatility |-> 0],
       fireGoals |-> [safeWithdrawalRate |-> 4, monthlyInvestment |-> mi,
                      futureExpenses |-> <<>>, futureIncomes |-> <<>>,
                      recurringIncomes |-> <<>>]] :
      h \in 1 .. MaxReplicaHorizon, g \in {0, 2}, inv \in {2000, 4000},
      oth \in {0, 500}, tax \in {0, 26}, mi \in {0, 50} }

\* calculateFire and runMonteCarlo (one or two paths, no targetFireAge) are
\* called on the same inputs
InitReplica ==
    /\ InitWith(ReplicaInputs, "loop")
    /\ InitMCWith(ReplicaInputs, 1 .. 2, {NULL}, "start")
    /\ mcInputs = inputs
    /\ IdleHook /\ IdleFin /\ IdleStore
NextReplica ==
    NextCalc \/ MCStart \/ MCAccumulateYear \/ MCDrawdownYear \/ MCNextPath \/ MCAggregate
SpecReplica == InitReplica /\ [][NextReplica]_vars

\* both calls have returned
BothReturned == pc = "done" /\ mcPc = "done"

\* C23: the Monte Carlo engine replicates the deterministic engine with the
\* random return as its only change: when every drawn return equals the fixed
\* net return (no volatility) and no targetFireAge is given, each path starts
\* from the portfolio calculateFire starts from, and reaches the fire age and
\* the clamped portfolio value of every year that calculateFire returns.
C23_ReplicatesDeterministic ==
    (BothReturned /\ volatility = 0 /\ arithmeticNet = netReturn) =>
        /\ startPortfolio = inputs.assets.investedAssets + inputs.assets.cashSavings
        /\ \A s \in 1 .. Len(allPaths) :
              /\ fireAges[s] = result.fireAge
              /\ \A k \in 1 .. Len(allPaths[s]) :
                    allPaths[s][k] = result.yearlyProjections[k].portfolioValue


-----------------------------------------------------------------------------
(* Properties of the figures derived after the loop *)

\* the required portfolio at coastTargetAge, inflated to that age
CoastTargetAt65 ==
    Mul(requiredPortfolio(Mul(baseAnnualExpenses, postRetirementFactor),
                          inputs.income.pensionMonthlyAmount * 12,
                          Max(0, inputs.income.pensionStartAge - coastTargetAge),
                          swr, realReturn),
        PowInt(ONE + inflation, coastTargetAge - inputs.personalInfo.currentAge))

\* the projected portfolio of age a, grown at netReturn to coastTargetAge,
\* reaches the target
CoastReached(a) ==
    Mul(PortfolioValueAt(result.yearlyProjections, a - inputs.personalInfo.currentAge),
        Pow(ONE + netReturn, coastTargetAge - a)) >= CoastTargetAt65

\* C24: the coastFireAge returned by calculateFire is the earliest age a with
\* currentAge <= a <= 65 whose projected portfolio, grown at netReturn for
\* 65 - a years, reaches the required portfolio at 65: the returned age
\* satisfies the condition and no earlier age does.
C24_CoastAgeIsEarliestReaching ==
    pc = "done" =>
        /\ result.coastFireAge \in inputs.personalInfo.currentAge .. coastTargetAge
        /\ CoastReached(result.coastFireAge)
        /\ \A a \in inputs.personalInfo.currentAge .. result.coastFireAge - 1 :
              ~CoastReached(a)


\* C25: in the result of calculateFire a projection is retired exactly when
\* its age is above fireAge: the entry of the fire age itself is an
\* accumulation year, and reaching FIRE in the final year or never yields no
\* retired entry.
C25_RetiredIffAfterFireAge ==
    pc = "done" =>
        /\ \A k \in 1 .. Len(result.yearlyProjections) :
              result.yearlyProjections[k].isRetired
                  <=> result.yearlyProjections[k].age > result.fireAge
        /\ result.fireAge = inputs.personalInfo.lifeExpectancy => RetiredYears = {}

\* FIRE reached before the final year: years on both sides of the fire age
C25_Witness ==
    /\ pc = "done"
    /\ result.fireAge > inputs.personalInfo.currentAge
    /\ result.fireAge < inputs.personalInfo.lifeExpectancy - 1
    /\ Cardinality(RetiredYears) >= 2


\* FireInputs whose return is above the withdrawal rate, with an expense
\* in the year before an income that counts towards FIRE
BridgeInputs ==
    { [personalInfo |-> [currentAge |-> a, lifeExpectancy |-> a + h],
       income |-> [monthlyNetSalary |-> 200, annualSalaryGrowth |-> 2,
                   additionalMonthlyIncome |-> 0,
                   pensionMonthlyAmount |-> 0, pensionStartAge |-> 65],
       expenses |-> [monthlyExpenses |-> 10, annualInflationRate |-> infl,
                     postRetirementExpensePercent |-> 100],
       assets |-> [investedAssets |-> inv, cashSavings |-> 0, debts |-> <<>>],
       investmentStrategy |-> [expectedAnnualReturn |-> 8, capitalGainsTaxRate |-> 0],
       fireGoals |-> [safeWithdrawalRate |-> 4, monthlyInvestment |-> mi,
                      futureExpenses |-> <<[amount |-> x, yearsFromNow |-> 1]>>,
                      futureIncomes |-> <<[amount |-> 3000, yearsFromNow |-> 2,
                                           includeInFire |-> TRUE]>>]] :
      a \in MinAge .. MinAge + 1, h \in 2 .. MaxHorizon, infl \in {0, 2},
      inv \in {2500, 2685, 2700}, mi \in {0, 5}, x \in {2000, 3100} }

\* one call of calculateFire on such inputs
InitBridge == InitWith(BridgeInputs, "loop") /\ IdleMC /\ IdleHook /\ IdleFin /\ IdleStore
SpecBridge == InitBridge /\ [][NextCalc]_vars

\* C26: whenever calculateFire retires at age a because survivesDrawdown
\* returned true, the running (unclamped) portfolio of the drawdown that
\* follows stays >= 0 in every projected year from a + 1 to lifeExpectancy.
C26_BridgeRetirementSurvives == RetiredByBridge => portfolio >= 0


\* C27: in every projection of calculateFire the three tracks are ordered,
\* portfolioPessimistic <= portfolioValue <= portfolioOptimistic, also in the
\* years in which a negative track is shown as 0.
C27_TracksOrdered ==
    \A k \in 1 .. Len(yearlyProjections) :
        /\ yearlyProjections[k].portfolioPessimistic <= yearlyProjections[k].portfolioValue
        /\ yearlyProjections[k].portfolioValue <= yearlyProjections[k].portfolioOptimistic


-----------------------------------------------------------------------------
(* Paths of runMonteCarlo that run out of money *)

MaxDepletionHorizon == 3

\* inputs of paths retired by targetFireAge on a portfolio below the spending
DepletionInputs ==
    { [personalInfo |-> [currentAge |-> MinAge, lifeExpectancy |-> MinAge + h],
       income |-> [annualSalaryGrowth |-> 2, pensions |-> <<>>],
       expenses |-> [monthlyExpenses |-> 10, annualInflationRate |-> 2,
                     postRetirementExpensePercent |-> 100],
       assets |-> [investedAssets |-> inv, cashSavings |-> 0, otherAssets |-> 0,
                   debts |-> <<>>, realEstateAssets |-> <<>>],
       investmentStrategy |-> [expectedAnnualReturn |-> 5, annualFees |-> 0,
                               capitalGainsTaxRate |-> tax, annualVolatility |-> 12],
       fireGoals |-> [safeWithdrawalRate |-> 4, monthlyInvestment |-> 0,
                      futureExpenses |-> <<>>, futureIncomes |-> fi,
                      recurringIncomes |-> <<>>]] :
      h \in 1 .. MaxDepletionHorizon, inv \in {10, 100, 200, 400, 3000}, tax \in {0, 26},
      fi \in { <<>>, <<[amount |-> 500, yearsFromNow |-> 3, includeInFire |-> FALSE]>> } }

\* one call of runMonteCarlo with one path, retired from the start or by the checks
InitDepletion ==
    /\ IdleCalc /\ InitMCWith(DepletionInputs, {1}, {NULL, MinAge}, "start") /\ IdleHook
    /\ IdleFin /\ IdleStore
NextDepletion == MCStart \/ MCAccumulateYear \/ MCDrawdownYear \/ MCNextPath \/ MCAggregate
SpecDepletion == InitDepletion /\ [][NextDepletion]_vars

\* the net one-time cash flow of year k of the call
NetOneTimeAt(k) ==
    OneTimeAt(mcInputs.fireGoals.futureIncomes, k)
    - OneTimeAt(mcInputs.fireGoals.futureExpenses, k)

\* the paths whose last recorded value is 0
DepletedPaths == { j \in 1 .. Len(allPaths) : allPaths[j][Len(allPaths[j])] = 0 }

\* C28: in a path of runMonteCarlo depletion is absorbing: every recorded
\* value is >= 0, a retired path whose portfolio is 0 stays at 0 in every later
\* year without a positive net one-time cash flow, and a path that ends at 0
\* counts as a failure in successRate.
C28_DepletionIsAbsorbing ==
    [][/\ \A k \in 1 .. Len(mcLocals'.path) : mcLocals'.path[k] >= 0
       /\ (/\ mcPc = "path"
           /\ mcLocals.isRetired
           /\ mcLocals.portfolio = 0
           /\ mcLocals'.i = mcLocals.i + 1
           /\ NetOneTimeAt(mcLocals.i) <= 0) => mcLocals'.portfolio = 0
       /\ mcPc' = "done" =>
             mcResult'.successRate
                 <= ((numSimulations - Cardinality(DepletedPaths)) * Pct * ONE)
                      \div numSimulations
      ]_vars


-----------------------------------------------------------------------------
(* Properties of the aggregates of runMonteCarlo *)

\* the ages of the histogram
HistogramAges ==
    { mcResult.fireAgeDistribution[k].age : k \in 1 .. Len(mcResult.fireAgeDistribution) }

\* C29: the FIRE-age histogram of runMonteCarlo conserves the paths: its counts
\* sum to numSimulations, its ages are distinct, ascending and between
\* currentAge and lifeExpectancy, medianFireAge is one of them, and ages and the
\* five percentile arrays have lifeExpectancy - currentAge + 1 entries.
C29_HistogramConservesPaths ==
    mcPc = "done" =>
        LET d == mcResult.fireAgeDistribution
            years == mcInputs.personalInfo.lifeExpectancy
                     - mcInputs.personalInfo.currentAge + 1
        IN  /\ SumSeq([k \in 1 .. Len(d) |-> d[k].count]) = numSimulations
            /\ \A k \in 1 .. Len(d) :
                  /\ d[k].count >= 1
                  /\ d[k].age >= mcInputs.personalInfo.currentAge
                  /\ d[k].age <= mcInputs.personalInfo.lifeExpectancy
            /\ \A k \in 1 .. Len(d) - 1 : d[k].age < d[k + 1].age
            /\ mcResult.medianFireAge \in HistogramAges
            /\ Len(mcResult.ages) = years
            /\ Len(mcResult.percentiles.p10) = years
            /\ Len(mcResult.percentiles.p25) = years
            /\ Len(mcResult.percentiles.p50) = years
            /\ Len(mcResult.percentiles.p75) = years
            /\ Len(mcResult.percentiles.p90) = years

\* three paths with two different fire ages, the later one reached first
C29_Witness ==
    /\ mcPc = "done"
    /\ numSimulations = MaxSims
    /\ Len(mcResult.fireAgeDistribution) >= 2
    /\ \E k \in 1 .. Len(fireAges) - 1 : fireAges[k] > fireAges[k + 1]


-----------------------------------------------------------------------------
(* Properties of useMonteCarloWorker under a fair schedule *)

\* a pending timer fires, the worker answers the requests it holds and the
\* responses posted are delivered
SpecHookLive ==
    /\ SpecHook
    /\ WF_vars(TimerFire)
    /\ WF_vars(WorkerHandle)
    /\ WF_vars(OnMessage)

\* nothing is pending and the hook returns the result of its current arguments
Settled ==
    /\ debounceRef = NoTimer
    /\ workerInbox = <<>>
    /\ mainInbox = <<>>
    /\ isComputing = FALSE
    /\ mc = [of |-> props]

\* a change of the arguments dispatches nothing and leaves one timer, and the
\* timer that fires dispatches one request, for the latest arguments
OneRequestPerBurst ==
    /\ props' # props =>
          /\ workerInbox' = workerInbox
          /\ requestIdRef' = requestIdRef
          /\ debounceRef' = props'
    /\ requestIdRef' # requestIdRef =>
          /\ requestIdRef' = requestIdRef + 1
          /\ Len(workerInbox') = Len(workerInbox) + 1
          /\ workerInbox'[Len(workerInbox')] =
                 [id |-> requestIdRef', inputs |-> props.inputs,
                  numSimulations |-> props.numSimulations,
                  targetFireAge |-> props.targetFireAge]
          /\ debounceRef' = NoTimer

\* C30: useMonteCarloWorker eventually settles: while the component stays
\* mounted, after the last change of its arguments isComputing becomes false
\* and mc is the result computed for the latest arguments, for good; and a
\* burst of changes within the debounce window dispatches one request only.
C30_EventuallySettles ==
    /\ <>[](mounted => Settled)
    /\ [][OneRequestPerBurst]_vars

\* settled on the result of a later request after the arguments were changed
C30_Witness ==
    /\ mounted
    /\ Settled
    /\ requestIdRef >= 2
    /\ props.targetFireAge # NULL

=============================================================================
